---- MODULE Spec2Model ----
(***************************************************************************)
(* State-machine model of the OpenClaw agent dashboard backend            *)
(* (src/app.py): the event-bus tailer (Bootstrap and Follow), the passive *)
(* core poller, the session bridge, the socket handlers and the one-time  *)
(* start of the background tasks, all sharing the agent-state map.        *)
(*                                                                         *)
(* Python values are tagged records [t, v]: None, bool, int, str, list,   *)
(* map.  A string is a sequence of atoms.  A string the code only copies  *)
(* or compares (status, task, timestamp) is one atom; a string the code   *)
(* trims, lowercases or scans (agent name, message, thought) is spelled   *)
(* out character by character.  The empty string is the empty sequence.   *)
(* A dict is a function on its keys; agent_state, whose insertion order   *)
(* the code reads, is a sequence of (key, value) pairs.                   *)
(***************************************************************************)
EXTENDS Integers, Sequences, FiniteSets, TLC

\* ------------------------------------------------------------------ bounds
\* Lines the emitters may append to the event log in one run.
MaxBusAppends == 1
\* Poll cycles of the core monitor in one run.
MaxPollCycles == 1
\* Transcript records appended to session files in one run.
MaxTranscriptAppends == 2
\* Lines of the event log an emitter sends a second time in one run.
MaxBusRepeats == 1
\* Timestamp texts name seconds between -MaxEpochSec and MaxEpochSec
MaxEpochSec == 400
\* Entries of a per-agent history side log left by earlier processes, beyond
\* the history cap.
ExtraHistory == 1

\* ------------------------------------------------------- program constants
HISTORY_CAP == 200
DEDUPE_WINDOW == 40
CONNECT_WAIT_TICKS == 12
BRIDGE_TAIL_ENTRIES == 4
SEEN_SOFT_LIMIT == 5000
SEEN_KEEP == 1000
INTERACTION_RING_MAX == 250
INTERACTION_SEEN_MAX == 4000
PUSH_LAST_MESSAGES == 2
TEXT_CLAMP == 420

\* ------------------------------------------------------------ Python values
NoneV == [t |-> "none", v |-> 0]
VBool(b) == [t |-> "bool", v |-> b]
VInt(n) == [t |-> "int", v |-> n]
VStr(s) == [t |-> "str", v |-> s]
VList(q) == [t |-> "list", v |-> q]
VMap(m) == [t |-> "map", v |-> m]
\* A string the code never takes apart: one atom.  '' is VStr(<<>>).
Txt(text) == VStr(<<text>>)
EmptyStr == VStr(<<>>)

EmptyDict == [k \in {} |-> NoneV]

\* Python truthiness of a value.
Truthy(x) ==
    CASE x.t = "none" -> FALSE
      [] x.t = "bool" -> x.v
      [] x.t = "int" -> x.v # 0
      [] x.t = "str" -> x.v # <<>>
      [] x.t = "list" -> x.v # <<>>
      [] x.t = "map" -> DOMAIN x.v # {}

\* a or b
PyOr(a, b) == IF Truthy(a) THEN a ELSE b

\* d.get(k), d.get(k, dflt), d[k] = v, d.setdefault(k, v)
Get(d, k) == IF k \in DOMAIN d THEN d[k] ELSE NoneV
GetD(d, k, dflt) == IF k \in DOMAIN d THEN d[k] ELSE dflt
Put(d, k, val) == [x \in (DOMAIN d) \cup {k} |-> IF x = k THEN val ELSE d[x]]
SetDefault(d, k, val) == IF k \in DOMAIN d THEN d ELSE Put(d, k, val)

\* s[-n:]
LastN(s, n) == IF Len(s) <= n THEN s ELSE SubSeq(s, Len(s) - n + 1, Len(s))
\* s[:n]
FirstN(s, n) == IF Len(s) <= n THEN s ELSE SubSeq(s, 1, n)

SetMin(S) == CHOOSE x \in S : \A y \in S : x <= y
SetMax(S) == CHOOSE x \in S : \A y \in S : x >= y

\* ------------------------------------------------------------------ strings
UpperCase == <<"A","B","C","D","E","F","G","H","I","J","K","L","M",
               "N","O","P","Q","R","S","T","U","V","W","X","Y","Z">>
LowerCase == <<"a","b","c","d","e","f","g","h","i","j","k","l","m",
               "n","o","p","q","r","s","t","u","v","w","x","y","z">>

LowerChar(c) ==
    IF \E i \in 1..26 : UpperCase[i] = c
    THEN LowerCase[CHOOSE i \in 1..26 : UpperCase[i] = c]
    ELSE c

IsSpace(c) == c \in {" ", "\t", "\n", "\r"}

\* str.lower()
StrLower(s) == [i \in 1..Len(s) |-> LowerChar(s[i])]

\* str.strip()
StrStrip(s) ==
    LET keep == {i \in 1..Len(s) : ~IsSpace(s[i])}
    IN  IF keep = {} THEN <<>> ELSE SubSeq(s, SetMin(keep), SetMax(keep))

\* s.startswith(p)
StartsWith(s, p) == Len(s) >= Len(p) /\ SubSeq(s, 1, Len(p)) = p

\* s[n:]
DropN(s, n) == IF Len(s) <= n THEN <<>> ELSE SubSeq(s, n + 1, Len(s))

\* str(name or ''): the text of a name value (names are None or strings here)
StrOfName(name) == IF name.t = "str" THEN name.v ELSE <<>>

\* src/app.py normalize_agent_name: str(name or '').strip().lower()
normalize_agent_name(name) == StrLower(StrStrip(StrOfName(name)))

UNKNOWN_NAME == <<"u","n","k","n","o","w","n">>

\* ------------------------------------------------- agent_state (ordered dict)
\* A Python dict whose insertion order is read: a sequence of [k, v] pairs.
ODKeys(od) == {od[i].k : i \in 1..Len(od)}
ODHas(od, key) == key \in ODKeys(od)
ODIndex(od, key) == CHOOSE i \in 1..Len(od) : od[i].k = key
\* od.get(key, {})
ODGet(od, key) == IF ODHas(od, key) THEN od[ODIndex(od, key)].v ELSE EmptyDict
\* od[key] = val: an existing key keeps its position, a new key goes last
ODPut(od, key, val) ==
    IF ODHas(od, key)
    THEN [od EXCEPT ![ODIndex(od, key)] = [k |-> key, v |-> val]]
    ELSE Append(od, [k |-> key, v |-> val])
\* list(od.values())
ODValues(od) == [i \in 1..Len(od) |-> od[i].v]

\* ------------------------------------------------------------ event shapes
\* should_skip_event without the test of the type tag
ShouldSkipIgnoringType(event) ==
    IF event.t # "map" THEN TRUE
    ELSE IF Get(event.v, "from") = Txt("system") THEN TRUE
    ELSE IF "agent" \notin DOMAIN event.v /\ "source" \notin DOMAIN event.v THEN TRUE
    ELSE FALSE
\* src/app.py should_skip_event: the parsed JSON value of a line is skipped
\* when it is not a map, is a system/announcement row, or names no emitter.
should_skip_event(event) ==
    IF event.t # "map" THEN TRUE
    ELSE IF Get(event.v, "from") = Txt("system")
            \/ Get(event.v, "type") = Txt("announcement") THEN TRUE
    ELSE IF "agent" \notin DOMAIN event.v /\ "source" \notin DOMAIN event.v THEN TRUE
    ELSE FALSE

\* time.strftime('%Y-%m-%dT%H:%M:%SZ', time.gmtime()) at clock value now
utc_now_iso(now) == VStr(<<"now", ToString(now)>>)

\* event.get(k) if k in event else None
OptField(ev, k) == IF k \in DOMAIN ev THEN Get(ev, k) ELSE NoneV

\* src/app.py normalize_event, for a map ev read at clock value now
normalize_event(ev, now) ==
    [k \in {"agent", "status", "task", "last_seen", "cron_jobs", "active_missions",
            "cpu", "mem", "recent_messages", "recent_thoughts", "current_thought",
            "real_time", "raw"} |->
        CASE k = "agent" ->
                PyOr(PyOr(Get(ev, "agent"), Get(ev, "source")), VStr(UNKNOWN_NAME))
          [] k = "status" -> GetD(ev, "status", Txt("unknown"))
          [] k = "task" -> GetD(ev, "task", EmptyStr)
          [] k = "last_seen" ->
                PyOr(PyOr(Get(ev, "ts"), Get(ev, "time")), utc_now_iso(now))
          [] k = "real_time" -> GetD(ev, "real_time", VBool(TRUE))
          [] k = "raw" -> VMap(ev)
          [] OTHER -> OptField(ev, k)]

\* ------------------------------------------------------------- histories
\* A history entry {type, ts, text}; text is a message or thought string.
HistEntry(type, ts, text) == [type |-> type, ts |-> ts, text |-> text]

\* any(str(e.get('text') or '').strip() == text for e in hist[-40:])
SeenRecently(hist, text) ==
    LET recent == LastN(hist, DEDUPE_WINDOW)
    IN  \E i \in 1..Len(recent) : StrStrip(recent[i].text) = text

\* `for m in value`: a list gives its items, a string its characters; None
\* and numbers are not iterable (TypeError).
Iterable(value) == value.t \in {"list", "str"}
IterItems(value) ==
    IF value.t = "list" THEN value.v
    ELSE [i \in 1..Len(value.v) |-> <<value.v[i]>>]

\* src/app.py tail_bus, Follow: the loop over one of the event's short-text
\* lists.  Skips a non-empty text already among the last 40, appends the
\* others to the history and to the side log (added).
RECURSIVE FollowAppend(_, _, _, _)
FollowAppend(hist, items, type, ts) ==
    IF items = <<>> THEN [h |-> hist, added |-> <<>>]
    ELSE LET m == Head(items)
             text == StrStrip(m)
         IN  IF text # <<>> /\ SeenRecently(hist, text)
             THEN FollowAppend(hist, Tail(items), type, ts)
             ELSE LET entry == HistEntry(type, ts, m)
                      rest == FollowAppend(Append(hist, entry), Tail(items), type, ts)
                  IN  [h |-> rest.h, added |-> <<entry>> \o rest.added]

\* src/app.py tail_bus, Bootstrap: one entry of the side log, on the two
\* histories acc = [mh, th]: appended to the history of its type unless its
\* non-empty text is among the last 40 there.
LoadEntry(acc, e) ==
    IF e.type = "message"
    THEN IF StrStrip(e.text) # <<>> /\ SeenRecently(acc.mh, StrStrip(e.text))
         THEN acc
         ELSE [mh |-> Append(acc.mh, e), th |-> acc.th]
    ELSE IF e.type = "thought"
    THEN IF StrStrip(e.text) # <<>> /\ SeenRecently(acc.th, StrStrip(e.text))
         THEN acc
         ELSE [mh |-> acc.mh, th |-> Append(acc.th, e)]
    ELSE acc

\* src/app.py tail_bus, Bootstrap: reload of the per-agent side log into the
\* two histories of a fresh snapshot, entry by entry in file order (no cap).
\* The left-to-right loop is unfolded by halves, the histories after the
\* first half being computed before the second half is entered (the test on
\* their lengths is always true), which keeps the evaluation shallow.
RECURSIVE LoadHistory(_, _)
LoadHistory(acc, entries) ==
    IF entries = <<>> \/ Len(acc.mh) + Len(acc.th) < 0 THEN acc
    ELSE IF Len(entries) = 1 THEN LoadEntry(acc, entries[1])
    ELSE LoadHistory(LoadHistory(acc, SubSeq(entries, 1, Len(entries) \div 2)),
                     SubSeq(entries, Len(entries) \div 2 + 1, Len(entries)))

\* if d.get(k) is None: d[k] = dflt
NoneToDefault(d, k, dflt) == IF Get(d, k) = NoneV THEN Put(d, k, dflt) ELSE d

\* Keys usable in a dict: lists and maps are unhashable (TypeError).
Hashable(key) == key.t \notin {"list", "map"}

BootLoaded(d, loaded) ==
    Put(Put(d, "message_history", VList(loaded.mh)), "thought_history", VList(loaded.th))

\* src/app.py tail_bus, Bootstrap: the snapshot stored for one normalized
\* event, given the agent's side log.
BootSnapshot(normalized, sidelog) ==
    LET d1 == SetDefault(SetDefault(normalized, "message_history", VList(<<>>)),
                         "thought_history", VList(<<>>))
        d2 == NoneToDefault(d1, "cron_jobs", VInt(0))
        d3 == NoneToDefault(d2, "active_missions", VList(<<>>))
        d4 == NoneToDefault(d3, "cpu", EmptyStr)
        d5 == NoneToDefault(d4, "mem", EmptyStr)
        d6 == NoneToDefault(d5, "recent_messages", VList(<<>>))
        d7 == NoneToDefault(d6, "recent_thoughts", VList(<<>>))
        d8 == NoneToDefault(d7, "current_thought", EmptyStr)
    IN  BootLoaded(d8, LoadHistory([mh |-> d8["message_history"].v,
                                    th |-> d8["thought_history"].v], sidelog))

\* `if normalized.get(k) is not None: merged[k] = ... else: merged.setdefault(k, dflt)`
MergeOptional(merged, normalized, k, dflt) ==
    IF Get(normalized, k) # NoneV
    THEN Put(merged, k, Get(normalized, k))
    ELSE SetDefault(merged, k, dflt)

\* merged[k] = source.get(k, merged.get(k, dflt))
PutMerged(merged, source, k, dflt) ==
    Put(merged, k, GetD(source, k, GetD(merged, k, dflt)))

\* `if prev.get('task') and prev.get('task') != merged.get('task'):
\*      merged['interrupted_task'] = prev.get('task')`
NoteInterrupted(prev, merged) ==
    IF Truthy(Get(prev, "task")) /\ Get(prev, "task") # Get(merged, "task")
    THEN Put(merged, "interrupted_task", Get(prev, "task"))
    ELSE merged

\* src/app.py tail_bus, Follow: the merged snapshot built from the stored
\* one (prev), the normalized event and the two updated histories.
FollowMerged(prev, normalized, mh, th, now) ==
    LET m1 == PutMerged(prev, normalized, "agent", VStr(UNKNOWN_NAME))
        m2 == PutMerged(m1, normalized, "status", Txt("unknown"))
        m3 == PutMerged(m2, normalized, "task", EmptyStr)
        m4 == PutMerged(m3, normalized, "last_seen", utc_now_iso(now))
        m5 == MergeOptional(m4, normalized, "cron_jobs", VInt(0))
        m6 == MergeOptional(m5, normalized, "active_missions", VList(<<>>))
        m7 == MergeOptional(m6, normalized, "cpu", EmptyStr)
        m8 == MergeOptional(m7, normalized, "mem", EmptyStr)
        m9 == MergeOptional(m8, normalized, "recent_messages", VList(<<>>))
        m10 == MergeOptional(m9, normalized, "recent_thoughts", VList(<<>>))
        m11 == MergeOptional(m10, normalized, "current_thought", EmptyStr)
        m12 == Put(m11, "real_time", GetD(normalized, "real_time", VBool(TRUE)))
        m13 == Put(m12, "raw", GetD(normalized, "raw", VMap(EmptyDict)))
        m14 == Put(Put(m13, "message_history", VList(mh)), "thought_history", VList(th))
    IN  NoneToDefault(NoteInterrupted(prev, m14), "cron_details", VList(<<>>))

\* ------------------------------------------------------------ interactions
CharsUser == <<"u","s","e","r">>
CharsAssistant == <<"a","s","s","i","s","t","a","n","t">>
CharsSystem == <<"s","y","s","t","e","m">>
CharsTool == <<"t","o","o","l">>
CharsToolResult == <<"t","o","o","l","r","e","s","u","l","t">>

\* src/app.py parse_message_actor, for a string message
parse_message_actor(message) ==
    LET clean == StrStrip(message)
        low == StrLower(clean)
    IN  IF StartsWith(low, CharsUser \o <<":">>)
        THEN [actor |-> CharsUser, text |-> StrStrip(DropN(clean, 5))]
        ELSE IF StartsWith(low, CharsAssistant \o <<":">>)
        THEN [actor |-> CharsAssistant, text |-> StrStrip(DropN(clean, 10))]
        ELSE IF StartsWith(low, CharsToolResult \o <<":">>)
        THEN [actor |-> CharsTool, text |-> StrStrip(DropN(clean, 11))]
        ELSE [actor |-> CharsSystem, text |-> clean]

\* remember_interaction_key without `interaction_seen_set.discard(oldest)`
RememberKeepingSet(ix, key) ==
    IF key = <<>> THEN [order |-> ix.order, seen |-> ix.seen, ok |-> FALSE]
    ELSE IF key \in ix.seen THEN [order |-> ix.order, seen |-> ix.seen, ok |-> FALSE]
    ELSE [order |-> Append(IF Len(ix.order) >= INTERACTION_SEEN_MAX
                           THEN Tail(ix.order) ELSE ix.order, key),
          seen |-> ix.seen \cup {key}, ok |-> TRUE]

\* src/app.py remember_interaction_key on the dedupe cache ix = [order, seen];
\* ok tells whether the key was new.
remember_interaction_key(ix, key) ==
    IF key = <<>> THEN [order |-> ix.order, seen |-> ix.seen, ok |-> FALSE]
    ELSE IF key \in ix.seen THEN [order |-> ix.order, seen |-> ix.seen, ok |-> FALSE]
    ELSE LET full == Len(ix.order) >= INTERACTION_SEEN_MAX
             order1 == IF full THEN Tail(ix.order) ELSE ix.order
             seen1 == IF full THEN ix.seen \ {Head(ix.order)} ELSE ix.seen
         IN  [order |-> Append(order1, key), seen |-> seen1 \cup {key}, ok |-> TRUE]

\* [a-z0-9_], the characters the mention pattern's lookarounds exclude
IsWordChar(c) ==
    c \in {LowerCase[i] : i \in 1..26}
          \cup {"0","1","2","3","4","5","6","7","8","9","_"}

\* re.search(rf'(?<![a-z0-9_]){re.escape(name)}(?![a-z0-9_])', low)
MentionMatch(name, low) ==
    \E i \in 1..(Len(low) - Len(name) + 1) :
        /\ SubSeq(low, i, i + Len(name) - 1) = name
        /\ (i = 1 \/ ~IsWordChar(low[i - 1]))
        /\ (i + Len(name) - 1 = Len(low) \/ ~IsWordChar(low[i + Len(name)]))

\* src/app.py detect_agent_mentions: the display names, in the store's
\* order, of the known agents other than the source that the text names.
detect_agent_mentions(text, source_agent, store) ==
    LET source_norm == normalize_agent_name(source_agent)
        display(i) == StrStrip(StrOfName(PyOr(Get(store[i].v, "agent"), EmptyStr)))
        norm(i) == StrLower(StrStrip(display(i)))
        \* known_by_norm.setdefault: the first row of each normalized name
        first(i) == norm(i) # <<>> /\ \A j \in 1..(i - 1) : norm(j) # norm(i)
        hit(i) == /\ first(i)
                  /\ norm(i) # source_norm
                  /\ MentionMatch(norm(i), StrLower(text))
        hits == {i \in 1..Len(store) : hit(i)}
        RECURSIVE collect(_)
        collect(i) ==
            IF i > Len(store) THEN <<>>
            ELSE (IF i \in hits THEN <<display(i)>> ELSE <<>>) \o collect(i + 1)
    IN  collect(1)

\* deque(maxlen=250).appendleft(row): the oldest row falls off the right end
AppendLeft(ring, row) == FirstN(<<row>> \o ring, INTERACTION_RING_MAX)

\* f"{kind}|{a}|{b}|{text}"
InteractionKey(kind, a, b, text) ==
    kind \o <<"|">> \o a \o <<"|">> \o b \o <<"|">> \o text

\* src/app.py push_interaction: the agent-to-agent rows of one message, one
\* per mentioned target whose key is new.
RECURSIVE PushMentions(_, _, _, _, _)
PushMentions(ix, targets, agent, ts, text_clamped) ==
    IF targets = <<>> THEN ix
    ELSE LET target == Head(targets)
             key == InteractionKey(<<"a","a">>, normalize_agent_name(agent),
                                   normalize_agent_name(VStr(target)),
                                   StrLower(StrStrip(text_clamped)))
             r == remember_interaction_key(ix, key)
             row == [ts |-> ts, source |-> agent, target |-> target,
                     text |-> text_clamped]
             ix1 == [ua |-> ix.ua,
                     aa |-> IF r.ok THEN AppendLeft(ix.aa, row) ELSE ix.aa,
                     order |-> r.order, seen |-> r.seen]
         IN  PushMentions(ix1, Tail(targets), agent, ts, text_clamped)

\* src/app.py push_interaction: the body of the loop, for one message
PushMessage(ix, message, event, store, now) ==
    LET agent == GetD(event, "agent", VStr(UNKNOWN_NAME))
        parsed == parse_message_actor(message)
        text_clamped == FirstN(parsed.text, TEXT_CLAMP)
        mentions == detect_agent_mentions(parsed.text, agent, store)
        ts == PyOr(Get(event, "last_seen"), utc_now_iso(now))
        row == [ts |-> ts, agent |-> agent, actor |-> parsed.actor,
                text |-> text_clamped, mentions |-> mentions]
    IN  IF parsed.actor = CharsUser
        THEN LET key == InteractionKey(<<"u","a">>, normalize_agent_name(agent),
                                       parsed.actor, StrLower(StrStrip(text_clamped)))
                 r == remember_interaction_key(ix, key)
             IN  [ua |-> IF r.ok THEN AppendLeft(ix.ua, row) ELSE ix.ua,
                  aa |-> ix.aa, order |-> r.order, seen |-> r.seen]
        ELSE IF parsed.actor \in {CharsAssistant, CharsSystem} /\ mentions # <<>>
        THEN PushMentions(ix, mentions, agent, ts, text_clamped)
        ELSE ix

RECURSIVE PushMessages(_, _, _, _, _)
PushMessages(ix, messages, event, store, now) ==
    IF messages = <<>> THEN ix
    ELSE PushMessages(PushMessage(ix, Head(messages), event, store, now),
                      Tail(messages), event, store, now)

\* src/app.py push_interaction(event) on the interaction state
\* ix = [ua, aa, order, seen], reading the store for known agent names.
push_interaction(ix, event, store, now) ==
    LET messages == PyOr(Get(event, "recent_messages"), VList(<<>>))
    IN  IF messages.t # "list" \/ messages.v = <<>> THEN ix
        ELSE PushMessages(ix, LastN(messages.v, PUSH_LAST_MESSAGES), event, store, now)

\* -------------------------------------------------------------- poller merge
\* `if not merged.get(k) [or merged.get(k) == 'unknown']:
\*      merged[k] = current.get(k, dflt)`
FillBlank(merged, current, k, dflt, blank) ==
    IF ~Truthy(Get(merged, k)) \/ Get(merged, k) \in blank
    THEN Put(merged, k, GetD(current, k, dflt))
    ELSE merged

\* `if not merged.get('recent_messages') and current.get('recent_messages'):`
FillMessages(merged, current) ==
    IF ~Truthy(Get(merged, "recent_messages")) /\ Truthy(Get(current, "recent_messages"))
    THEN Put(merged, "recent_messages", GetD(current, "recent_messages", VList(<<>>)))
    ELSE merged

\* A merge that treats every mode like the mixed one: the runtime fields of
\* the stored snapshot are kept unless blank.
CoreMergedKeepRuntime(previous, current, openclaw_mode, now) ==
    FillMessages(FillBlank(FillBlank(Put(previous, "agent", Get(current, "agent")),
                                     current, "status", Txt("Observed"), {Txt("unknown")}),
                           current, "task", EmptyStr, {}),
                 current)

\* A merge that treats every mode as control-plane-only: status, task,
\* messages, thoughts and raw payload are those of the synthesized snapshot.
CoreMergedReplacing(previous, current, openclaw_mode, now) ==
    Put(Put(Put(Put(PutMerged(PutMerged(
        Put(PutMerged(PutMerged(Put(Put(PutMerged(PutMerged(PutMerged(PutMerged(
            previous, current, "agent", VStr(UNKNOWN_NAME)),
            current, "cron_jobs", VInt(0)),
            current, "active_missions", VList(<<>>)),
            current, "last_seen", utc_now_iso(now)),
            "real_time", VBool(TRUE)),
            "raw_core", GetD(current, "raw", VMap(EmptyDict))),
            current, "cron_details", VList(<<>>)),
            current, "interrupted_tasks", VList(<<>>)),
            "recent_messages", GetD(current, "recent_messages", VList(<<>>))),
        current, "status", Txt("Observed")),
        current, "task", EmptyStr),
        "recent_thoughts", VList(<<>>)),
        "current_thought", EmptyStr),
        "raw", GetD(current, "raw", VMap(EmptyDict))),
        "real_time", VBool(TRUE))
\* src/app.py apply_core_snapshot: the snapshot merged from the stored one
\* (previous) and one synthesized snapshot (current), by mode.
CoreMerged(previous, current, openclaw_mode, now) ==
    LET m1 == PutMerged(previous, current, "agent", VStr(UNKNOWN_NAME))
        m2 == PutMerged(m1, current, "cron_jobs", VInt(0))
        m3 == PutMerged(m2, current, "active_missions", VList(<<>>))
        m4 == PutMerged(m3, current, "last_seen", utc_now_iso(now))
        m5 == Put(m4, "real_time", VBool(TRUE))
        m6 == Put(m5, "raw_core", GetD(current, "raw", VMap(EmptyDict)))
        m7 == PutMerged(m6, current, "cron_details", VList(<<>>))
        m8 == PutMerged(m7, current, "interrupted_tasks", VList(<<>>))
    IN  IF openclaw_mode = "core-only-passive"
        THEN LET c1 == PutMerged(m8, current, "status", Txt("Observed"))
                 c2 == PutMerged(c1, current, "task", EmptyStr)
                 c3 == Put(c2, "recent_messages",
                           GetD(current, "recent_messages", VList(<<>>)))
                 c4 == Put(c3, "recent_thoughts", VList(<<>>))
                 c5 == Put(c4, "current_thought", EmptyStr)
             IN  Put(c5, "raw", GetD(current, "raw", VMap(EmptyDict)))
        ELSE LET a1 == FillBlank(m8, current, "status", Txt("Observed"), {Txt("unknown")})
                 a2 == FillBlank(a1, current, "task", EmptyStr, {})
             IN  FillMessages(a2, current)

\* apply_core_snapshot, `if merged != previous:` the snapshot is stored,
\* recorded for notification and pushed to the interaction buffers.
CoreStore(acc, agent, merged, store1, now) ==
    [store |-> store1,
     ix |-> push_interaction(acc.ix, merged, store1, now),
     changed |-> Append(acc.changed, merged)]

CoreApply(acc, agent, previous, merged, now) ==
    IF merged # previous
    THEN CoreStore(acc, agent, merged, ODPut(acc.store, agent, merged), now)
    ELSE acc

\* src/app.py apply_core_snapshot: the loop over the synthesized snapshots,
\* on acc = [store, ix, changed].
RECURSIVE CoreMergeLoop(_, _, _, _)
CoreMergeLoop(acc, states, openclaw_mode, now) ==
    IF states = <<>> THEN acc
    ELSE IF ~Truthy(Get(Head(states), "agent"))
    THEN CoreMergeLoop(acc, Tail(states), openclaw_mode, now)
    ELSE CoreMergeLoop(
           CoreApply(acc, Get(Head(states), "agent"),
                     ODGet(acc.store, Get(Head(states), "agent")),
                     CoreMerged(ODGet(acc.store, Get(Head(states), "agent")),
                                Head(states), openclaw_mode, now),
                     now),
           Tail(states), openclaw_mode, now)

\* ------------------------------------------------------------------- state
VARIABLES
    OPENCLAW_MODE,      \* the configured mode (AGENT_DASHBOARD_MODE)
    clock,              \* wall clock, in ticks
    bus,                \* the event log: a sequence of lines
    bus_appends,        \* lines appended to the log during the run
    invalid_archive,    \* lines written to the invalid-lines archive
    history_files,      \* per-agent history side logs: agent -> entries
    agent_state,        \* the agent-state map
    BUS_READY,          \* the ready flag
    interactions,       \* [ua, aa, order, seen]: ring buffers and dedupe index
    cron_details_by_agent, \* the cron index: agent -> rows of its jobs
    cron_summary,       \* [active_jobs, next_up, last_errors]
    state_lock,         \* holder of state_lock, or "free"
    bootstrap_lock,     \* holder of bootstrap_lock, or "free"
    started_flags,      \* [bus_reader, session_bridge, core_monitor] flags
    threads,            \* background threads started, by target
    emitted,            \* socket notifications, in order
    tail,               \* tail_bus: position and locals
    poll,               \* core_only_monitor: position and locals
    callers,            \* request and socket handlers: position and locals
    bridge,             \* bridge_sessions_to_bus: position and locals
    sessions,           \* session transcript files, by agent directory
    session_writes      \* transcript lines and files written during the run

envVars == <<OPENCLAW_MODE, clock, bus, bus_appends>>
fileVars == <<invalid_archive, history_files>>
cronVars == <<cron_details_by_agent, cron_summary>>
storeVars == <<agent_state, BUS_READY, interactions, cronVars>>
bootVars == <<bootstrap_lock, started_flags, threads>>
bridgeVars == <<bridge, sessions, session_writes>>
notTail == <<poll, callers, bridgeVars>>
notPoll == <<tail, callers, bridgeVars>>
vars == <<envVars, fileVars, storeVars, state_lock, bootVars, emitted, tail, poll,
          callers, bridgeVars>>

\* --------------------------------------------------------------- the tailer
\* A line of the log: blank, unparsable text, or a JSON value.
BlankLine == [j |-> "blank", val |-> NoneV]
GarbageLine == [j |-> "garbage", val |-> NoneV]
JsonLine(value) == [j |-> "json", val |-> value]

\* with open(history_path, 'a') as hf: hf.write(...) for each added entry
FileAppend(files, key, entries) ==
    IF entries = <<>> THEN files
    ELSE Put(files, key, GetD(files, key, <<>>) \o entries)

\* src/app.py tail_bus, Bootstrap: the populate loop over initial_events,
\* on acc = [store, ok]; storing under an unhashable agent raises TypeError.
RECURSIVE BootPopulate(_, _, _)
BootPopulate(acc, events, files) ==
    IF events = <<>> THEN acc
    ELSE LET agent == Head(events).agent
             normalized == Head(events).normalized
         IN  IF agent = VStr(UNKNOWN_NAME)
             THEN BootPopulate(acc, Tail(events), files)
             ELSE IF ~Hashable(agent)
             THEN [store |-> acc.store, ok |-> FALSE]
             ELSE BootPopulate(
                    [store |-> ODPut(acc.store, agent,
                                     BootSnapshot(normalized, GetD(files, agent, <<>>))),
                     ok |-> TRUE],
                    Tail(events), files)

\* src/app.py tail_bus is_system_event
is_system_event(snapshot) ==
    LET raw == GetD(snapshot, "raw", VMap(EmptyDict))
    IN  Get(raw.v, "from") = Txt("system") \/ Get(raw.v, "type") = Txt("announcement")

\* [v for v in agent_state.values() if v.get('agent') != 'unknown' and not is_system_event(v)]
RECURSIVE InitPayload(_)
InitPayload(values) ==
    IF values = <<>> THEN <<>>
    ELSE (IF Get(Head(values), "agent") # VStr(UNKNOWN_NAME) /\ ~is_system_event(Head(values))
          THEN <<Head(values)>> ELSE <<>>) \o InitPayload(Tail(values))

\* Follow, end of the locked block: the merged snapshot is stored and pushed
\* to the interaction buffers.
FollowStore(store1, files, ix, merged, now) ==
    [raised |-> FALSE, store |-> store1, files |-> files,
     ix |-> push_interaction(ix, merged, store1, now), merged |-> merged]

FollowRaised(store, files, ix) ==
    [raised |-> TRUE, store |-> store, files |-> files, ix |-> ix, merged |-> EmptyDict]

\* Follow, the loop over recent_thoughts and the merge, after the loop over
\* recent_messages gave r1.
FollowThoughts(store, files1, ix, agent, prev, normalized, thoughts, ts, r1, r2, now) ==
    FollowStore(ODPut(store, agent,
                      FollowMerged(prev, normalized, LastN(r1.h, HISTORY_CAP),
                                   LastN(r2.h, HISTORY_CAP), now)),
                FileAppend(files1, agent, r2.added), ix,
                FollowMerged(prev, normalized, LastN(r1.h, HISTORY_CAP),
                             LastN(r2.h, HISTORY_CAP), now),
                now)

FollowMessages(store, files, ix, agent, prev, normalized, thoughts, ts, r1, now) ==
    IF ~Iterable(thoughts) THEN FollowRaised(store, FileAppend(files, agent, r1.added), ix)
    ELSE FollowThoughts(store, FileAppend(files, agent, r1.added), ix, agent, prev,
                        normalized, thoughts, ts, r1,
                        FollowAppend(GetD(prev, "thought_history", VList(<<>>)).v,
                                     IterItems(thoughts), "thought", ts),
                        now)

FollowLocked(store, files, ix, agent, prev, normalized, messages, thoughts, ts, now) ==
    IF ~Iterable(messages) THEN FollowRaised(store, files, ix)
    ELSE FollowMessages(store, files, ix, agent, prev, normalized, thoughts, ts,
                        FollowAppend(GetD(prev, "message_history", VList(<<>>)).v,
                                     IterItems(messages), "message", ts),
                        now)

\* src/app.py tail_bus, Follow: the locked block for one accepted line, on
\* the store, the side logs and the interaction state.  raised: a TypeError
\* left the block (unhashable agent, non-iterable short-text list); side-log
\* lines written before it stay written.
FollowStep(store, files, ix, event, normalized, now) ==
    IF ~Hashable(normalized["agent"]) THEN FollowRaised(store, files, ix)
    ELSE FollowLocked(store, files, ix, normalized["agent"],
                      ODGet(store, normalized["agent"]), normalized,
                      GetD(event, "recent_messages", VList(<<>>)),
                      GetD(event, "recent_thoughts", VList(<<>>)),
                      PyOr(Get(event, "ts"), utc_now_iso(now)), now)

Notify(name, room, data) == [event |-> name, room |-> room, data |-> data]

\* Bootstrap read loop: one line of the log.
TailBootReadLine ==
    /\ tail.pc = "boot_read"
    /\ tail.pos < Len(bus)
    /\ LET line == bus[tail.pos + 1]
       IN  IF line.j = "blank"
           THEN /\ tail' = [tail EXCEPT !.pos = @ + 1]
                /\ UNCHANGED invalid_archive
           ELSE IF line.j = "garbage"
           THEN /\ tail' = [tail EXCEPT !.pos = @ + 1]
                /\ invalid_archive' = Append(invalid_archive, line)
           ELSE IF should_skip_event(line.val)
           THEN /\ tail' = [tail EXCEPT !.pos = @ + 1]
                /\ UNCHANGED invalid_archive
           ELSE LET normalized == normalize_event(line.val.v, clock)
                IN  /\ tail' = [tail EXCEPT
                                  !.pos = @ + 1,
                                  !.initial_events =
                                      Append(@, [agent |-> normalized["agent"],
                                                 normalized |-> normalized])]
                    /\ UNCHANGED invalid_archive
    /\ UNCHANGED <<envVars, history_files, storeVars, state_lock, bootVars, emitted, notTail>>

\* Bootstrap read loop: end of file.
TailBootEof ==
    /\ tail.pc = "boot_read"
    /\ tail.pos >= Len(bus)
    /\ tail' = [tail EXCEPT !.pc = "boot_lock"]
    /\ UNCHANGED <<envVars, fileVars, storeVars, state_lock, bootVars, emitted, notTail>>

\* Bootstrap: with state_lock
TailBootAcquire ==
    /\ tail.pc = "boot_lock"
    /\ state_lock = "free"
    /\ state_lock' = "tailer"
    /\ tail' = [tail EXCEPT !.pc = "boot_populate"]
    /\ UNCHANGED <<envVars, fileVars, storeVars, bootVars, emitted, notTail>>

TailBootStored(r) ==
    /\ agent_state' = r.store
    /\ tail' = [tail EXCEPT !.pc = IF r.ok THEN "boot_emit" ELSE "dead"]

\* Bootstrap: populate the store from initial_events, release the lock.
TailBootPopulate ==
    /\ tail.pc = "boot_populate"
    /\ TailBootStored(BootPopulate([store |-> agent_state, ok |-> TRUE],
                                    tail.initial_events, history_files))
    /\ state_lock' = "free"
    /\ UNCHANGED <<envVars, fileVars, BUS_READY, interactions, cronVars, bootVars, emitted,
                   notTail>>

\* Bootstrap: socketio.emit('init', data)
TailBootEmit ==
    /\ tail.pc = "boot_emit"
    /\ emitted' = Append(emitted, Notify("init", "all", InitPayload(ODValues(agent_state))))
    /\ tail' = [tail EXCEPT !.pc = "boot_ready"]
    /\ UNCHANGED <<envVars, fileVars, storeVars, state_lock, bootVars, notTail>>

\* Bootstrap: BUS_READY = True
TailSetReady ==
    /\ tail.pc = "boot_ready"
    /\ BUS_READY' = TRUE
    /\ tail' = [tail EXCEPT !.pc = "follow_seek"]
    /\ UNCHANGED <<envVars, fileVars, agent_state, interactions, cronVars, state_lock,
                   bootVars, emitted, notTail>>

\* Follow: reopen the log and seek to its end.
TailFollowSeek ==
    /\ tail.pc = "follow_seek"
    /\ tail' = [tail EXCEPT !.pc = "follow_read", !.pos = Len(bus)]
    /\ UNCHANGED <<envVars, fileVars, storeVars, state_lock, bootVars, emitted, notTail>>

\* Follow: readline() returned a line.
TailFollowReadLine ==
    /\ tail.pc = "follow_read"
    /\ tail.pos < Len(bus)
    /\ LET line == bus[tail.pos + 1]
       IN  IF line.j = "blank"
           THEN /\ tail' = [tail EXCEPT !.pos = @ + 1]
                /\ UNCHANGED invalid_archive
           ELSE IF line.j = "garbage"
           THEN /\ tail' = [tail EXCEPT !.pos = @ + 1]
                /\ invalid_archive' = Append(invalid_archive, line)
           ELSE IF should_skip_event(line.val)
           THEN /\ tail' = [tail EXCEPT !.pos = @ + 1]
                /\ UNCHANGED invalid_archive
           ELSE /\ tail' = [tail EXCEPT
                              !.pos = @ + 1,
                              !.pc = "follow_lock",
                              !.event = line.val.v,
                              !.normalized = normalize_event(line.val.v, clock)]
                /\ UNCHANGED invalid_archive
    /\ UNCHANGED <<envVars, history_files, storeVars, state_lock, bootVars, emitted, notTail>>

\* Follow: with state_lock
TailFollowAcquire ==
    /\ tail.pc = "follow_lock"
    /\ state_lock = "free"
    /\ state_lock' = "tailer"
    /\ tail' = [tail EXCEPT !.pc = "follow_merge"]
    /\ UNCHANGED <<envVars, fileVars, storeVars, bootVars, emitted, notTail>>

TailFollowStored(r) ==
    /\ agent_state' = r.store
    /\ history_files' = r.files
    /\ interactions' = r.ix
    /\ tail' = [tail EXCEPT !.pc = IF r.raised THEN "dead" ELSE "follow_emit",
                            !.merged = r.merged]

\* Follow: merge the event into the store, release the lock.
TailFollowMerge ==
    /\ tail.pc = "follow_merge"
    /\ TailFollowStored(FollowStep(agent_state, history_files, interactions,
                                   tail.event, tail.normalized, clock))
    /\ state_lock' = "free"
    /\ UNCHANGED <<envVars, invalid_archive, BUS_READY, cronVars, bootVars, emitted, notTail>>

\* Follow: socketio.emit('update', merged)
TailFollowEmit ==
    /\ tail.pc = "follow_emit"
    /\ emitted' = Append(emitted, Notify("update", "all", tail.merged))
    /\ tail' = [tail EXCEPT !.pc = "follow_read"]
    /\ UNCHANGED <<envVars, fileVars, storeVars, state_lock, bootVars, notTail>>

\* Bootstrap, up to the reopening of the log for Follow.
TailerBoot ==
    \/ TailBootReadLine \/ TailBootEof \/ TailBootAcquire \/ TailBootPopulate
    \/ TailBootEmit \/ TailSetReady \/ TailFollowSeek

\* The Follow loop.
TailerFollow ==
    \/ TailFollowReadLine \/ TailFollowAcquire \/ TailFollowMerge \/ TailFollowEmit

Tailer == TailerBoot \/ TailerFollow

\* --------------------------------------------------------------- the poller
UpperChar(c) ==
    IF \E i \in 1..26 : LowerCase[i] = c
    THEN UpperCase[CHOOSE i \in 1..26 : LowerCase[i] = c]
    ELSE c

\* str.capitalize()
StrCapitalize(s) ==
    [i \in 1..Len(s) |-> IF i = 1 THEN UpperChar(s[i]) ELSE LowerChar(s[i])]

\* ------------------------------------------------------ scheduled jobs
NEXT_UP_MAX == 8
MISSION_NAMES_MAX == 4
SESSION_FRESH_MS == 300000
CRON_SOON_SEC == 120

\* int(time.time() * 1000) at clock value now: a tick of the clock is a minute
NowMs(now) == now * 60000

\* `jobs = cron_payload.get('jobs') ...; jobs = jobs if isinstance(jobs, list) else []`
CronJobs(payloads) ==
    LET cron_payload == PyOr(payloads.cron, VMap(EmptyDict))
        jobs == IF cron_payload.t = "map" THEN Get(cron_payload.v, "jobs") ELSE VList(<<>>)
    IN  IF jobs.t = "list" THEN jobs.v ELSE <<>>

\* str(job.get('agentId') or '').strip().lower()
JobAgentId(job) == StrLower(StrStrip(StrOfName(PyOr(Get(job.v, "agentId"), EmptyStr))))

\* job.get('state') if isinstance(job.get('state'), dict) else {}
JobState(job) == IF Get(job.v, "state").t = "map" THEN Get(job.v, "state").v ELSE EmptyDict

\* bool(job.get('enabled', True))
JobEnabled(job) == Truthy(GetD(job.v, "enabled", VBool(TRUE)))

\* state.get('lastStatus') or 'unknown'
JobLastStatus(job) == PyOr(Get(JobState(job), "lastStatus"), Txt("unknown"))

\* src/app.py build_cron_details: the row of one job (the formatted
\* timestamps, the schedule and the run log of the row are left out).
CronRow(job) ==
    VMap([k \in {"job_id", "name", "enabled", "next_run_ms", "last_status",
                 "interrupted"} |->
            CASE k = "job_id" -> GetD(job.v, "id", EmptyStr)
              [] k = "name" -> GetD(job.v, "name", Txt("cron-job"))
              [] k = "enabled" -> VBool(JobEnabled(job))
              [] k = "next_run_ms" -> Get(JobState(job), "nextRunAtMs")
              [] k = "last_status" -> JobLastStatus(job)
              [] OTHER -> VBool(JobLastStatus(job) \notin {Txt("ok"), Txt("success")})])

\* details_by_agent.setdefault(agent_id.capitalize(), []).append(row), over
\* the jobs that are maps and name an agent
RECURSIVE CronDetails(_, _)
CronDetails(details, jobs) ==
    IF jobs = <<>> THEN details
    ELSE IF Head(jobs).t # "map" \/ JobAgentId(Head(jobs)) = <<>>
    THEN CronDetails(details, Tail(jobs))
    ELSE CronDetails(
           Put(details, StrCapitalize(JobAgentId(Head(jobs))),
               Append(GetD(details, StrCapitalize(JobAgentId(Head(jobs))), <<>>),
                      CronRow(Head(jobs)))),
           Tail(jobs))

\* key=lambda x: x.get('next_run_ms') or float('inf'): a next run of 0 sorts last
CronSortKeyLess(a, b) == a # 0 /\ (b = 0 \/ a < b)

\* next_candidates.sort(...): stable insertion of one candidate
RECURSIVE SortedInsert(_, _)
SortedInsert(sorted, c) ==
    IF sorted = <<>> THEN <<c>>
    ELSE IF CronSortKeyLess(c.next_run_ms, Head(sorted).next_run_ms) THEN <<c>> \o sorted
    ELSE <<Head(sorted)>> \o SortedInsert(Tail(sorted), c)

\* next_candidates, sorted: the enabled jobs with a numeric next run
RECURSIVE NextCandidates(_)
NextCandidates(jobs) ==
    IF jobs = <<>> THEN <<>>
    ELSE LET job == jobs[Len(jobs)]
         IN  IF job.t = "map" /\ JobAgentId(job) # <<>> /\ JobEnabled(job)
                /\ Get(JobState(job), "nextRunAtMs").t = "int"
             THEN SortedInsert(NextCandidates(SubSeq(jobs, 1, Len(jobs) - 1)),
                               [agent |-> StrCapitalize(JobAgentId(job)),
                                name |-> GetD(job.v, "name", Txt("cron-job")),
                                next_run_ms |-> Get(JobState(job), "nextRunAtMs").v])
             ELSE NextCandidates(SubSeq(jobs, 1, Len(jobs) - 1))

\* last_errors: the jobs whose last status is neither ok nor success
RECURSIVE LastErrors(_)
LastErrors(jobs) ==
    IF jobs = <<>> THEN <<>>
    ELSE (IF Head(jobs).t = "map" /\ JobAgentId(Head(jobs)) # <<>>
             /\ JobLastStatus(Head(jobs)) \notin {Txt("ok"), Txt("success")}
          THEN <<[agent |-> StrCapitalize(JobAgentId(Head(jobs))),
                  name |-> GetD(Head(jobs).v, "name", Txt("cron-job")),
                  status |-> JobLastStatus(Head(jobs))]>>
          ELSE <<>>) \o LastErrors(Tail(jobs))

\* sum(1 for jobs in details_by_agent.values() for j in jobs if j.get('enabled'))
RECURSIVE EnabledRows(_)
EnabledRows(rows) ==
    IF rows = <<>> THEN 0
    ELSE (IF Truthy(Get(Head(rows).v, "enabled")) THEN 1 ELSE 0) + EnabledRows(Tail(rows))

RECURSIVE ActiveJobs(_, _)
ActiveJobs(details, agents) ==
    IF agents = {} THEN 0
    ELSE LET a == CHOOSE x \in agents : TRUE
         IN  EnabledRows(details[a]) + ActiveJobs(details, agents \ {a})

\* src/app.py build_cron_details: the value assigned to cron_summary
CronSummary(details, jobs) ==
    [active_jobs |-> ActiveJobs(details, DOMAIN details),
     next_up |-> FirstN(NextCandidates(jobs), NEXT_UP_MAX),
     last_errors |-> FirstN(LastErrors(jobs), NEXT_UP_MAX)]

\* The module-level initial value of cron_summary.
CronSummaryInit == [active_jobs |-> 0, next_up |-> <<>>, last_errors |-> <<>>]

\* src/app.py fmt_seconds
fmt_seconds(seconds) ==
    IF seconds < 60 THEN <<ToString(seconds), "s">>
    ELSE IF seconds \div 60 < 60 THEN <<ToString(seconds \div 60), "m">>
    ELSE <<ToString((seconds \div 60) \div 60), "h">>

\* enabled_jobs: the jobs of the agent with a truthy (or absent) enabled
EnabledJobs(jobs, agent_id) ==
    SelectSeq(jobs, LAMBDA j : /\ j.t = "map"
                               /\ JobAgentId(j) = agent_id
                               /\ Truthy(GetD(j.v, "enabled", VBool(TRUE))))

\* [j.get('name', '') for j in enabled_jobs if j.get('name')][:4]
MissionNames(enabled_jobs) ==
    LET named == SelectSeq(enabled_jobs, LAMBDA j : Truthy(Get(j.v, "name")))
    IN  FirstN([i \in 1..Len(named) |-> Get(named[i].v, "name").v], MISSION_NAMES_MAX)

\* next_run_ms: the earliest positive numeric nextRunAtMs of the enabled
\* jobs, or None
NextRunMs(enabled_jobs) ==
    LET cands == {Get(JobState(enabled_jobs[i]), "nextRunAtMs").v :
                    i \in {n \in 1..Len(enabled_jobs) :
                             /\ Get(JobState(enabled_jobs[n]), "nextRunAtMs").t = "int"
                             /\ Get(JobState(enabled_jobs[n]), "nextRunAtMs").v > 0}}
    IN  IF cands = {} THEN NoneV ELSE VInt(SetMin(cands))

\* status_payload.get('sessions', {}).get('recent', [])
RecentSessions(payloads) ==
    LET status_payload == PyOr(payloads.status, VMap(EmptyDict))
        sessions_map == GetD(status_payload.v, "sessions", VMap(EmptyDict))
    IN  GetD(sessions_map.v, "recent", VList(<<>>)).v

SessionAgentId(entry) ==
    StrLower(StrStrip(StrOfName(PyOr(Get(entry.v, "agentId"), EmptyStr))))

\* recent_by_agent.get(agent_id): the agent's record with the greatest
\* updatedAt (the first of them), or None
RECURSIVE RecentOf(_, _, _)
RecentOf(existing, entries, agent_id) ==
    IF entries = <<>> THEN existing
    ELSE IF Head(entries).t # "map" \/ SessionAgentId(Head(entries)) # agent_id
    THEN RecentOf(existing, Tail(entries), agent_id)
    ELSE IF existing = NoneV
            \/ GetD(Head(entries).v, "updatedAt", VInt(0)).v
                 > GetD(existing.v, "updatedAt", VInt(0)).v
    THEN RecentOf(Head(entries), Tail(entries), agent_id)
    ELSE RecentOf(existing, Tail(entries), agent_id)

\* status and task from the session record: none, fresh or stale
SessionStatus(recent) ==
    IF recent = NoneV
    THEN [status |-> Txt("Idle"), task |-> Txt("Waiting for next core event")]
    ELSE IF PyOr(Get(recent.v, "age"), VInt(0)).v <= SESSION_FRESH_MS
    THEN [status |-> Txt("Active"), task |-> Txt("Recent session activity detected")]
    ELSE [status |-> Txt("Observed"), task |-> Txt("No recent session activity detected")]

\* delta_sec = max(0, int((next_run_ms - now_ms) / 1000))
DeltaSec(next_run_ms, now_ms) ==
    IF next_run_ms <= now_ms THEN 0 ELSE (next_run_ms - now_ms) \div 1000

\* `if next_run_ms is not None:` the task names the next run; a run within
\* 120 s makes the agent Active
CronStatus(base, next_run, now) ==
    IF next_run = NoneV THEN base
    ELSE [status |-> IF DeltaSec(next_run.v, NowMs(now)) <= CRON_SOON_SEC
                     THEN Txt("Active") ELSE base.status,
          task |-> VStr(<<"Next cron run in ">>
                        \o fmt_seconds(DeltaSec(next_run.v, NowMs(now))))]

\* `if interrupted_jobs:` Attention
AttentionStatus(base, interrupted_jobs) ==
    IF interrupted_jobs = <<>> THEN base
    ELSE [status |-> Txt("Attention"),
          task |-> VStr(<<ToString(Len(interrupted_jobs)), " cron jobs are non-ok">>)]

\* The status and task build_core_agent_states gives an agent.
SynthStatus(recent, next_run, interrupted_jobs, now) ==
    AttentionStatus(CronStatus(SessionStatus(recent), next_run, now), interrupted_jobs)

\* last_seen: the record's updatedAt when it is a positive number, else now
SynthLastSeen(recent, now) ==
    IF recent # NoneV /\ Get(recent.v, "updatedAt").t = "int"
       /\ Get(recent.v, "updatedAt").v > 0
    THEN VStr(<<"at", ToString(Get(recent.v, "updatedAt").v \div 1000)>>)
    ELSE utc_now_iso(now)

\* recent_messages: the one line that describes the session record
SynthMessages(recent) ==
    IF recent = NoneV THEN <<>>
    ELSE IF Get(recent.v, "totalTokens").t = "int"
    THEN <<(<<"session: model=">> \o PyOr(Get(recent.v, "model"), Txt("n/a")).v)
           \o <<", tokens=", ToString(Get(recent.v, "totalTokens").v)>>>>
    ELSE <<<<"session: model=">> \o PyOr(Get(recent.v, "model"), Txt("n/a")).v>>

\* [j for j in job_rows if j.get('interrupted')]
InterruptedRows(job_rows) ==
    SelectSeq(job_rows, LAMBDA j : Truthy(Get(j.v, "interrupted")))

\* The snapshot of one agent from its parts.
SynthSnapshot(agent_id, display_agent, enabled_jobs, job_rows, recent, openclaw_mode, now) ==
    [k \in {"agent", "status", "task", "last_seen", "cron_jobs", "active_missions",
            "cpu", "mem", "recent_messages", "recent_thoughts", "current_thought",
            "cron_details", "interrupted_tasks", "real_time", "raw"} |->
        CASE k = "agent" -> display_agent
          [] k = "status" ->
               SynthStatus(recent, NextRunMs(enabled_jobs), InterruptedRows(job_rows),
                           now).status
          [] k = "task" ->
               SynthStatus(recent, NextRunMs(enabled_jobs), InterruptedRows(job_rows),
                           now).task
          [] k = "last_seen" -> SynthLastSeen(recent, now)
          [] k = "cron_jobs" -> VInt(Len(enabled_jobs))
          [] k = "active_missions" -> VList(MissionNames(enabled_jobs))
          [] k \in {"cpu", "mem", "current_thought"} -> EmptyStr
          [] k = "recent_messages" -> VList(SynthMessages(recent))
          [] k = "cron_details" -> VList(job_rows)
          [] k = "interrupted_tasks" -> VList(InterruptedRows(job_rows))
          [] k = "real_time" -> VBool(TRUE)
          [] k = "raw" -> VMap([r \in {"source", "agentId", "mode", "confidence",
                                       "model", "totalTokens", "inputTokens",
                                       "outputTokens", "contextTokens", "updatedAt",
                                       "age", "memory", "mem", "rss"} |->
                                CASE r = "source" -> Txt("openclaw-core")
                                  [] r = "agentId" -> VStr(agent_id)
                                  [] r = "mode" -> Txt(openclaw_mode)
                                  [] r = "confidence" -> Txt("high")
                                  [] r \in {"memory", "mem", "rss"} -> NoneV
                                  [] OTHER -> IF recent = NoneV THEN NoneV
                                              ELSE Get(recent.v, r)])
          [] OTHER -> VList(<<>>)]

\* display_agent = item.get('name') or agent_id.capitalize()
DisplayAgent(item) ==
    PyOr(item.name, VStr(StrCapitalize(StrLower(StrStrip(StrOfName(PyOr(item.id, EmptyStr)))))))

\* src/app.py build_core_agent_states: the snapshot synthesized for one
\* registry item [id, name] from the payloads of the cycle and the cron index.
CoreAgentState(item, payloads, details, openclaw_mode, now) ==
    SynthSnapshot(StrLower(StrStrip(StrOfName(PyOr(item.id, EmptyStr)))),
                  DisplayAgent(item),
                  EnabledJobs(CronJobs(payloads),
                              StrLower(StrStrip(StrOfName(PyOr(item.id, EmptyStr))))),
                  GetD(details, StrOfName(DisplayAgent(item)), <<>>),
                  RecentOf(NoneV, RecentSessions(payloads),
                           StrLower(StrStrip(StrOfName(PyOr(item.id, EmptyStr))))),
                  openclaw_mode, now)

\* src/app.py build_core_agent_states: one snapshot per registry item with a
\* non-empty id.
RECURSIVE build_core_agent_states(_, _, _, _, _)
build_core_agent_states(agents_payload, payloads, details, openclaw_mode, now) ==
    IF agents_payload = <<>> THEN <<>>
    ELSE (IF StrLower(StrStrip(StrOfName(PyOr(Head(agents_payload).id, EmptyStr)))) = <<>>
          THEN <<>>
          ELSE <<CoreAgentState(Head(agents_payload), payloads, details, openclaw_mode,
                                now)>>)
         \o build_core_agent_states(Tail(agents_payload), payloads, details,
                                    openclaw_mode, now)

\* A cycle without the except clause: the exception ends the thread.
PollUncaught ==
    /\ poll' = [poll EXCEPT !.pc = "dead"]
    /\ state_lock' = IF state_lock = "poller" THEN "free" ELSE state_lock

\* The except clause of core_only_monitor: the cycle is abandoned and the
\* loop goes on to its sleep; a `with state_lock` block left by the
\* exception releases the lock.
PollCaught ==
    /\ poll' = [poll EXCEPT !.pc = "sleep"]
    /\ state_lock' = IF state_lock = "poller" THEN "free" ELSE state_lock

\* fetch_core_payloads: the four control-plane queries, each answering or
\* unavailable (None).  payloads: [agents, cron] with agents a registry list.
PollFetch(payloads) ==
    /\ poll.pc = "fetch"
    /\ \E p \in payloads : poll' = [poll EXCEPT !.pc = "capabilities", !.payloads = p]
    /\ UNCHANGED <<envVars, fileVars, storeVars, state_lock, bootVars, emitted, notPoll>>

\* compute_core_capabilities: payloads.get('cron', {}).get('jobs') raises
\* AttributeError when the cron query was unavailable (None).
PollCapabilities ==
    /\ poll.pc = "capabilities"
    /\ IF poll.payloads.cron = NoneV
       THEN PollCaught
       ELSE /\ poll' = [poll EXCEPT !.pc = "cron"]
            /\ UNCHANGED state_lock
    /\ UNCHANGED <<envVars, fileVars, storeVars, bootVars, emitted, notPoll>>

\* build_cron_details: `cron_details_by_agent = details_by_agent`, assigned
\* without state_lock
PollCron ==
    /\ poll.pc = "cron"
    /\ cron_details_by_agent' = CronDetails(EmptyDict, CronJobs(poll.payloads))
    /\ poll' = [poll EXCEPT !.pc = "cron_summary"]
    /\ UNCHANGED <<envVars, fileVars, agent_state, BUS_READY, interactions, cron_summary,
                   state_lock, bootVars, emitted, notPoll>>

\* build_cron_details: `cron_summary = {...}`, the next statement
PollCronSummary ==
    /\ poll.pc = "cron_summary"
    /\ cron_summary' = CronSummary(cron_details_by_agent, CronJobs(poll.payloads))
    /\ poll' = [poll EXCEPT !.pc = "synth"]
    /\ UNCHANGED <<envVars, fileVars, agent_state, BUS_READY, interactions,
                   cron_details_by_agent, state_lock, bootVars, emitted, notPoll>>

\* build_core_agent_states
PollSynth ==
    /\ poll.pc = "synth"
    /\ poll' = [poll EXCEPT
                  !.pc = "lock",
                  !.states = build_core_agent_states(
                                 PyOr(poll.payloads.agents, VList(<<>>)).v,
                                 poll.payloads, cron_details_by_agent,
                                 OPENCLAW_MODE, clock)]
    /\ UNCHANGED <<envVars, fileVars, storeVars, state_lock, bootVars, emitted, notPoll>>

\* apply_core_snapshot: with state_lock
PollAcquire ==
    /\ poll.pc = "lock"
    /\ state_lock = "free"
    /\ state_lock' = "poller"
    /\ poll' = [poll EXCEPT !.pc = "merge"]
    /\ UNCHANGED <<envVars, fileVars, storeVars, bootVars, emitted, notPoll>>

\* A merge that asks for the full-list notification whatever the store held.
InitNeededAlways(store) == TRUE

\* apply_core_snapshot: `if not agent_state: init_needed = True`
InitNeeded(store) == store = <<>>

PollMerged(r) ==
    /\ agent_state' = r.store
    /\ interactions' = r.ix
    /\ poll' = [poll EXCEPT !.pc = "post",
                            !.init_needed = InitNeeded(agent_state),
                            !.changed = r.changed]

\* apply_core_snapshot: the locked merge, the ready flag, release.
PollMerge ==
    /\ poll.pc = "merge"
    /\ PollMerged(CoreMergeLoop([store |-> agent_state, ix |-> interactions,
                                 changed |-> <<>>],
                                poll.states, OPENCLAW_MODE, clock))
    /\ BUS_READY' = IF poll.states # <<>> /\ ~BUS_READY THEN TRUE ELSE BUS_READY
    /\ state_lock' = "free"
    /\ UNCHANGED <<envVars, fileVars, cronVars, bootVars, emitted, notPoll>>

\* socketio.emit('update', payload) for each changed payload
RECURSIVE Updates(_)
Updates(payloads) ==
    IF payloads = <<>> THEN <<>>
    ELSE <<Notify("update", "all", Head(payloads))>> \o Updates(Tail(payloads))

\* apply_core_snapshot: the notifications after the merge: the full list
\* (copied under the lock) when the store was empty, else the changes.
PollPost ==
    /\ poll.pc = "post"
    /\ IF poll.init_needed
       THEN /\ state_lock = "free"
            /\ emitted' = Append(emitted, Notify("init", "all", ODValues(agent_state)))
       ELSE emitted' = emitted \o Updates(poll.changed)
    /\ poll' = [poll EXCEPT !.pc = "ready"]
    /\ UNCHANGED <<envVars, fileVars, storeVars, state_lock, bootVars, notPoll>>

\* core_only_monitor: `if states and not BUS_READY: BUS_READY = True`
PollSetReady ==
    /\ poll.pc = "ready"
    /\ BUS_READY' = IF poll.states # <<>> /\ ~BUS_READY THEN TRUE ELSE BUS_READY
    /\ poll' = [poll EXCEPT !.pc = "sleep"]
    /\ UNCHANGED <<envVars, fileVars, agent_state, interactions, cronVars, state_lock,
                   bootVars, emitted, notPoll>>

\* An exception inside one of the remaining steps of the cycle (a payload of
\* an unexpected shape, a failing emit), caught by the except clause.
PollRaise ==
    /\ poll.pc \in {"cron", "cron_summary", "synth", "merge", "post"}
    /\ PollCaught
    /\ UNCHANGED <<envVars, fileVars, storeVars, bootVars, emitted, notPoll>>

\* time.sleep(max(1.0, CORE_POLL_INTERVAL_SEC)), then the next cycle
PollSleep ==
    /\ poll.pc = "sleep"
    /\ poll.cycles < MaxPollCycles
    /\ poll' = [poll EXCEPT !.pc = "fetch", !.cycles = @ + 1]
    /\ clock' = clock + 1
    /\ UNCHANGED <<OPENCLAW_MODE, bus, bus_appends, fileVars, storeVars, state_lock,
                   bootVars, emitted, notPoll>>

\* One cycle without an unexpected exception, up to its sleep.
PollerCycle(payloads) ==
    \/ PollFetch(payloads) \/ PollCapabilities \/ PollCron \/ PollCronSummary
    \/ PollSynth
    \/ PollAcquire \/ PollMerge \/ PollPost \/ PollSetReady

\* The loop without an unexpected exception.
PollerSteps(payloads) == PollerCycle(payloads) \/ PollSleep

Poller(payloads) == PollerSteps(payloads) \/ PollRaise

\* ------------------------------------------- start of the background tasks
\* A caller is one run of an entry point: a before_request hook ("request"),
\* handle_connect ("connect") or handle_init_request ("init_request"), each of
\* which calls ensure_bus_reader_started first; or the module's __main__ block
\* ("main"), which calls start_bus_reader itself, without the lock, before
\* the server accepts anything.
notCaller == <<envVars, fileVars, storeVars, state_lock, emitted>>

CallerBegin(c, kinds) ==
    /\ callers[c].pc = "idle"
    /\ \E k \in kinds :
          /\ IF k = "main"
             THEN \A d \in DOMAIN callers : callers[d].pc = "idle"
             ELSE \A d \in DOMAIN callers :
                     callers[d].kind = "main" => callers[d].pc \in {"idle", "done"}
          /\ callers' = [callers EXCEPT ![c].pc = IF k = "main" THEN "sb_core" ELSE "ensure",
                                        ![c].kind = k]
    /\ UNCHANGED <<notCaller, bootVars, tail, poll, bridgeVars>>

\* A bootstrap lock that excludes nobody.
BootLockIgnored == TRUE

\* ensure_bus_reader_started: `with bootstrap_lock` may be entered
BootLockOpen == bootstrap_lock = "free"

\* ensure_bus_reader_started: with bootstrap_lock
EnsureAcquire(c) ==
    /\ callers[c].pc = "ensure"
    /\ BootLockOpen
    /\ bootstrap_lock' = c
    /\ callers' = [callers EXCEPT ![c].pc = "sb_core"]
    /\ UNCHANGED <<notCaller, started_flags, threads, tail, poll, bridgeVars>>

\* start_bus_reader: reads core_monitor_started
StartCoreCheck(c) ==
    /\ callers[c].pc = "sb_core"
    /\ callers' = [callers EXCEPT ![c].pc = "sb_core_start",
                                  ![c].seen = started_flags.core_monitor]
    /\ UNCHANGED <<notCaller, bootVars, tail, poll, bridgeVars>>

\* start_bus_reader: starts the core monitor in auto and core-only-passive
\* mode unless the flag was set; in core-only-passive mode it then returns.
StartCoreSpawn(c) ==
    /\ callers[c].pc = "sb_core_start"
    /\ IF OPENCLAW_MODE \in {"auto", "core-only-passive"} /\ ~callers[c].seen
       THEN /\ started_flags' = [started_flags EXCEPT !.core_monitor = TRUE]
            /\ threads' = [threads EXCEPT !.core_monitor = @ + 1]
            /\ poll' = IF poll.pc = "not_started" THEN [poll EXCEPT !.pc = "fetch"] ELSE poll
       ELSE UNCHANGED <<started_flags, threads, poll>>
    /\ callers' = [callers EXCEPT ![c].pc = IF OPENCLAW_MODE = "core-only-passive"
                                            THEN "sb_return" ELSE "sb_reader"]
    /\ UNCHANGED <<notCaller, bootstrap_lock, tail, bridgeVars>>

\* start_bus_reader: reads bus_reader_started
StartReaderCheck(c) ==
    /\ callers[c].pc = "sb_reader"
    /\ callers' = [callers EXCEPT ![c].pc = "sb_reader_start",
                                  ![c].seen = started_flags.bus_reader]
    /\ UNCHANGED <<notCaller, bootVars, tail, poll, bridgeVars>>

\* start_bus_reader: unless the reader flag was set, starts the tailer and,
\* unless its own flag is set, the session bridge.
StartReaderSpawn(c) ==
    /\ callers[c].pc = "sb_reader_start"
    /\ IF callers[c].seen
       THEN UNCHANGED <<started_flags, threads, tail, bridge>>
       ELSE /\ started_flags' = [started_flags EXCEPT !.bus_reader = TRUE,
                                                      !.session_bridge = TRUE]
            /\ threads' = [threads EXCEPT
                             !.tail_bus = @ + 1,
                             !.bridge = IF started_flags.session_bridge THEN @ ELSE @ + 1]
            /\ tail' = IF tail.pc = "not_started" THEN [tail EXCEPT !.pc = "boot_read"]
                       ELSE tail
            /\ bridge' = IF bridge.pc = "not_started" /\ ~started_flags.session_bridge
                         THEN [bridge EXCEPT !.pc = "list"] ELSE bridge
    /\ callers' = [callers EXCEPT ![c].pc = "sb_return"]
    /\ UNCHANGED <<notCaller, bootstrap_lock, poll, sessions, session_writes>>

\* start_bus_reader returns: ensure_bus_reader_started leaves the
\* `with bootstrap_lock` block and the entry point goes on with its own body.
EnsureRelease(c) ==
    /\ callers[c].pc = "sb_return"
    /\ bootstrap_lock' = IF callers[c].kind = "main" THEN bootstrap_lock ELSE "free"
    /\ callers' = [callers EXCEPT ![c].pc =
                      CASE callers[c].kind = "connect" -> "conn_copy"
                        [] callers[c].kind = "init_request" -> "ir_copy"
                        [] callers[c].kind = "insights" -> "ins_lock"
                        [] callers[c].kind \in {"drilldown", "drilldown_node"} -> "dd_lock"
                        [] OTHER -> "done"]
    /\ UNCHANGED <<notCaller, started_flags, threads, tail, poll, bridgeVars>>

Starter(c, kinds) ==
    \/ CallerBegin(c, kinds) \/ EnsureAcquire(c) \/ StartCoreCheck(c)
    \/ StartCoreSpawn(c) \/ StartReaderCheck(c) \/ StartReaderSpawn(c)
    \/ EnsureRelease(c)

\* ------------------------------------------------------ the socket handlers
notHandler == <<envVars, fileVars, storeVars, state_lock, bootVars, tail, poll, bridgeVars>>

\* handle_connect: `with state_lock: data = list(agent_state.values())`
ConnCopy(c) ==
    /\ callers[c].pc = "conn_copy"
    /\ state_lock = "free"
    /\ callers' = [callers EXCEPT ![c].pc = "conn_check",
                                  ![c].data = ODValues(agent_state)]
    /\ UNCHANGED <<notHandler, emitted>>

\* handle_connect: `if BUS_READY: break`, else sleep 0.25 s and loop while
\* waited < 3.0
ConnCheck(c) ==
    /\ callers[c].pc = "conn_check"
    /\ callers' = [callers EXCEPT
                     ![c].pc = IF BUS_READY \/ callers[c].waited + 1 >= CONNECT_WAIT_TICKS
                               THEN "conn_final" ELSE "conn_copy",
                     ![c].waited = IF BUS_READY THEN @ ELSE @ + 1]
    /\ UNCHANGED <<notHandler, emitted>>

\* A handler that delivers the targeted init whatever it read.
HandlerReplyAlways(c, ready, data) == Notify("init", c, data)

\* The targeted reply of a handler that read the ready flag as `ready`.
HandlerReply(c, ready, data) ==
    IF ~ready
    THEN Notify("init_pending", c, <<>>)
    ELSE Notify("init", c, data)

\* handle_connect: `if not BUS_READY:` after the loop
ConnFinal(c) ==
    /\ callers[c].pc = "conn_final"
    /\ callers' = [callers EXCEPT ![c].pc = "conn_emit", ![c].ready = BUS_READY]
    /\ UNCHANGED <<notHandler, emitted>>

\* handle_connect: init_pending or the targeted init
ConnEmit(c) ==
    /\ callers[c].pc = "conn_emit"
    /\ emitted' = Append(emitted, HandlerReply(c, callers[c].ready, callers[c].data))
    /\ callers' = [callers EXCEPT ![c].pc = "done"]
    /\ UNCHANGED notHandler

\* handle_init_request: `with state_lock: data = list(agent_state.values())`
InitRequestCopy(c) ==
    /\ callers[c].pc = "ir_copy"
    /\ state_lock = "free"
    /\ callers' = [callers EXCEPT ![c].pc = "ir_reply",
                                  ![c].data = ODValues(agent_state)]
    /\ UNCHANGED <<notHandler, emitted>>

\* handle_init_request: `if not BUS_READY:`
InitRequestCheck(c) ==
    /\ callers[c].pc = "ir_reply"
    /\ callers' = [callers EXCEPT ![c].pc = "ir_emit", ![c].ready = BUS_READY]
    /\ UNCHANGED <<notHandler, emitted>>

\* handle_init_request: init_pending or the targeted init
InitRequestReply(c) ==
    /\ callers[c].pc = "ir_emit"
    /\ emitted' = Append(emitted, HandlerReply(c, callers[c].ready, callers[c].data))
    /\ callers' = [callers EXCEPT ![c].pc = "done"]
    /\ UNCHANGED notHandler

Handler(c) ==
    \/ ConnCopy(c) \/ ConnCheck(c) \/ ConnFinal(c) \/ ConnEmit(c)
    \/ InitRequestCopy(c) \/ InitRequestCheck(c) \/ InitRequestReply(c)

\* ------------------------------------------------------ the insights reader
\* insights: `with state_lock:`
InsightsAcquire(c) ==
    /\ callers[c].pc = "ins_lock"
    /\ state_lock = "free"
    /\ state_lock' = c
    /\ callers' = [callers EXCEPT ![c].pc = "ins_index"]
    /\ UNCHANGED <<envVars, fileVars, storeVars, bootVars, tail, poll, bridgeVars, emitted>>

\* insights: the copies of the agent list and of the cron index
InsightsCopyIndex(c) ==
    /\ callers[c].pc = "ins_index"
    /\ callers' = [callers EXCEPT ![c].pc = "ins_summary",
                                  ![c].data = ODValues(agent_state),
                                  ![c].cron_by_agent = cron_details_by_agent]
    /\ UNCHANGED <<notHandler, emitted>>

\* insights: `cron_info = cron_summary.copy()` and the end of the locked block
InsightsCopySummary(c) ==
    /\ callers[c].pc = "ins_summary"
    /\ callers' = [callers EXCEPT ![c].pc = "done", ![c].cron_info = cron_summary]
    /\ state_lock' = "free"
    /\ UNCHANGED <<envVars, fileVars, storeVars, bootVars, tail, poll, bridgeVars, emitted>>

Insights(c) == InsightsAcquire(c) \/ InsightsCopyIndex(c) \/ InsightsCopySummary(c)

\* -------------------------------------------------------- the session bridge
\* ' '.join(chunks)
RECURSIVE JoinSpace(_)
JoinSpace(chunks) ==
    IF chunks = <<>> THEN <<>>
    ELSE IF Len(chunks) = 1 THEN Head(chunks)
    ELSE Head(chunks) \o <<" ">> \o JoinSpace(Tail(chunks))

\* s.replace('\n', ' ')
ReplaceNewline(s) == [i \in 1..Len(s) |-> IF s[i] = "\n" THEN " " ELSE s[i]]

\* src/app.py get_text_from_content_block
get_text_from_content_block(block, key) ==
    LET value == Get(block, key)
    IN  IF ~Truthy(value) THEN <<>>
        ELSE IF value.t = "str" THEN StrStrip(value.v)
        ELSE <<>>

\* src/app.py extract_session_event: the stripped texts of the blocks of one
\* type ('text' read from key 'text', 'thinking' from key 'thinking').
RECURSIVE ContentChunks(_, _, _)
ContentChunks(content, block_type, key) ==
    IF content = <<>> THEN <<>>
    ELSE IF Head(content).t # "map" THEN ContentChunks(Tail(content), block_type, key)
    ELSE IF StrLower(StrStrip(StrOfName(PyOr(Get(Head(content).v, "type"), EmptyStr))))
            # block_type
    THEN ContentChunks(Tail(content), block_type, key)
    ELSE IF get_text_from_content_block(Head(content).v, key) = <<>>
    THEN ContentChunks(Tail(content), block_type, key)
    ELSE <<get_text_from_content_block(Head(content).v, key)>>
         \o ContentChunks(Tail(content), block_type, key)

CharsText == <<"t","e","x","t">>
CharsThinking == <<"t","h","i","n","k","i","n","g">>
PREVIEW_MAX == 240

\* src/app.py extract_session_event raises AttributeError: the entry, or a
\* truthy message block, is not a map.
ExtractRaises(entry) ==
    \/ entry.t # "map"
    \/ /\ Truthy(Get(entry.v, "message"))
       /\ Get(entry.v, "message").t # "map"

\* src/app.py extract_session_event, for a map entry with a map (or falsy)
\* message block: the event for the bus, or None.
extract_session_event(agent_name, entry, now) ==
    LET message == PyOr(Get(entry, "message"), VMap(EmptyDict)).v
        role == StrLower(StrStrip(StrOfName(PyOr(Get(message, "role"), EmptyStr))))
        content == Get(message, "content")
        text_chunks == ContentChunks(content.v, CharsText, "text")
        thought_chunks == ContentChunks(content.v, CharsThinking, "thinking")
        text_preview == StrStrip(ReplaceNewline(JoinSpace(text_chunks)))
        thought_preview == StrStrip(ReplaceNewline(JoinSpace(thought_chunks)))
        recent_messages ==
            IF text_preview # <<>>
            THEN <<role \o <<":", " ">> \o FirstN(text_preview, PREVIEW_MAX)>>
            ELSE <<>>
        recent_thoughts ==
            IF thought_preview # <<>> THEN <<FirstN(thought_preview, PREVIEW_MAX)>>
            ELSE <<>>
        current_thought ==
            IF thought_preview # <<>> THEN VStr(recent_thoughts[1]) ELSE EmptyStr
    IN  IF role \notin {CharsUser, CharsAssistant} THEN NoneV
        ELSE IF content.t # "list" THEN NoneV
        ELSE IF text_chunks = <<>> /\ thought_chunks = <<>> THEN NoneV
        ELSE VMap([k \in {"agent", "source", "type", "status", "task", "ts",
                          "recent_messages", "recent_thoughts", "current_thought",
                          "real_time"} |->
                CASE k = "agent" -> VStr(agent_name)
                  [] k = "source" -> Txt("session-bridge")
                  [] k = "type" -> Txt("session_update")
                  [] k = "status" -> Txt("Active")
                  [] k = "task" -> IF role = CharsUser THEN Txt("User interaction")
                                   ELSE Txt("Agent response")
                  [] k = "ts" -> PyOr(Get(entry, "timestamp"), utc_now_iso(now))
                  [] k = "recent_messages" -> VList(recent_messages)
                  [] k = "recent_thoughts" -> VList(recent_thoughts)
                  [] k = "current_thought" -> current_thought
                  [] OTHER -> VBool(TRUE)])

\* A dedupe key: '' (NoKey), f"id:{id}", or "hash:" + sha1 of the JSON of
\* {timestamp, role, content}; sha1 is taken to be injective.
NoKey == [kind |-> "", id |-> NoneV, timestamp |-> NoneV, role |-> NoneV,
          content |-> NoneV]

\* src/app.py session_entry_dedupe_key
session_entry_dedupe_key(entry) ==
    IF entry.t # "map" THEN NoKey
    ELSE IF Truthy(Get(entry.v, "id"))
    THEN [kind |-> "id", id |-> Get(entry.v, "id"), timestamp |-> NoneV,
          role |-> NoneV, content |-> NoneV]
    ELSE LET message == IF Get(entry.v, "message").t = "map"
                        THEN Get(entry.v, "message").v ELSE EmptyDict
         IN  [kind |-> "hash", id |-> NoneV,
              timestamp |-> PyOr(Get(entry.v, "timestamp"), EmptyStr),
              role |-> PyOr(Get(message, "role"), EmptyStr),
              content |-> PyOr(Get(message, "content"), VList(<<>>))]

\* The JSON values of the non-blank, parsable lines among `lines`.
RECURSIVE ParsedLines(_)
ParsedLines(lines) ==
    IF lines = <<>> THEN <<>>
    ELSE (IF Head(lines).j = "json" THEN <<Head(lines).val>> ELSE <<>>)
         \o ParsedLines(Tail(lines))

\* A bridge that opens the log with 'w': the file is replaced by the line.
rewrite_bus(log, event) == <<JsonLine(event)>>

\* src/app.py append_event_to_bus: open(BUS_PATH, 'a') and write one line
append_event_to_bus(log, event) == Append(log, JsonLine(event))

\* A bridge without the seen-key test: no entry is ever skipped.
BridgeSeenNever(acc, entry_key) == FALSE

\* `if entry_key and entry_key in seen_ids: continue`
BridgeSeen(acc, entry_key) == entry_key # NoKey /\ entry_key \in acc.seen

\* `if event: append_event_to_bus(event)`, `if entry_key: seen_ids.add(entry_key)`
BridgeEntry(acc, entry_key, event) ==
    [seen |-> IF entry_key # NoKey THEN acc.seen \cup {entry_key} ELSE acc.seen,
     log |-> IF Truthy(event) THEN append_event_to_bus(acc.log, event) ELSE acc.log,
     raised |-> FALSE]

\* src/app.py bridge_sessions_to_bus: the loop over the parsed entries of one
\* file, on acc = [seen, log, raised]: log is the event log with the events
\* appended so far; an entry whose key is in seen is skipped; raised:
\* extract_session_event raised and the loop was left.
RECURSIVE BridgeEntries(_, _, _, _)
BridgeEntries(acc, entries, agent_name, now) ==
    IF entries = <<>> THEN acc
    ELSE IF BridgeSeen(acc, session_entry_dedupe_key(Head(entries)))
    THEN BridgeEntries(acc, Tail(entries), agent_name, now)
    ELSE IF ExtractRaises(Head(entries))
    THEN [seen |-> acc.seen, log |-> acc.log, raised |-> TRUE]
    ELSE BridgeEntries(
           BridgeEntry(acc, session_entry_dedupe_key(Head(entries)),
                       extract_session_event(agent_name, Head(entries).v, now)),
           Tail(entries), agent_name, now)

\* The agent's latest transcript file: [dir, n], the n-th file of dir.
LatestPath(dir) == [dir |-> dir, n |-> Len(sessions[dir])]
FileLines(path) == sessions[path.dir][path.n]

\* All orders in which os.listdir may give the names in S.
Orders(S) ==
    {q \in [1..Cardinality(S) -> S] : \A i, j \in 1..Cardinality(S) : i # j => q[i] # q[j]}

notBridge == <<OPENCLAW_MODE, clock, invalid_archive, history_files, storeVars,
               state_lock, bootVars, emitted, tail, poll, callers>>

\* list_agent_session_files: the latest .jsonl file of every agent directory
\* that has one, keyed by the capitalized directory name.
BridgeList ==
    /\ bridge.pc = "list"
    /\ LET dirs == {d \in DOMAIN sessions : sessions[d] # <<>>}
       IN  \E order \in Orders(dirs) :
              bridge' = [bridge EXCEPT
                           !.pc = "agents",
                           !.todo = [i \in 1..Len(order) |->
                                        [name |-> StrCapitalize(order[i]),
                                         path |-> LatestPath(order[i])]]]
    /\ UNCHANGED <<notBridge, bus, bus_appends, sessions, session_writes>>

\* file_offsets.get(agent_name)
PreviousOffset(agent_name) ==
    IF agent_name \in DOMAIN bridge.file_offsets
    THEN bridge.file_offsets[agent_name]
    ELSE [path |-> NoneV, offset |-> 0]

\* `if previous is None or previous.get('path') != file_path`
BridgeReplay(agent_name, file_path) == PreviousOffset(agent_name).path # file_path

\* `if file_size < current_offset: current_offset = 0`
BridgeOffset(agent_name, lines) ==
    IF Len(lines) < PreviousOffset(agent_name).offset THEN 0
    ELSE PreviousOffset(agent_name).offset

\* The lines the loop body reads: the last 4 of a new or rotated file, else
\* those after the stored offset.
BridgeLines(agent_name, file_path, lines) ==
    IF BridgeReplay(agent_name, file_path) THEN LastN(lines, BRIDGE_TAIL_ENTRIES)
    ELSE DropN(lines, BridgeOffset(agent_name, lines))

\* The effect of the loop body given the outcome r of its entries.
BridgeStored(r, agent_name, file_path, lines) ==
    /\ bus' = r.log
    /\ bridge' =
          IF r.raised
          THEN [bridge EXCEPT !.pc = "sleep", !.seen_ids = r.seen, !.todo = <<>>]
          ELSE IF BridgeReplay(agent_name, file_path)
          THEN [bridge EXCEPT !.pc = "replay_size", !.seen_ids = r.seen]
          ELSE [bridge EXCEPT
                  !.seen_ids = r.seen,
                  !.todo = Tail(@),
                  !.file_offsets =
                      IF Len(lines) <= BridgeOffset(agent_name, lines)
                      THEN @
                      ELSE Put(@, agent_name, [path |-> file_path, offset |-> Len(lines)])]

BridgeFile(agent_name, file_path, lines) ==
    BridgeStored(BridgeEntries([seen |-> bridge.seen_ids, log |-> bus, raised |-> FALSE],
                               ParsedLines(BridgeLines(agent_name, file_path, lines)),
                               agent_name, clock),
                 agent_name, file_path, lines)

\* The loop body of bridge_sessions_to_bus for one agent: replay of the
\* last 4 entries of a new or rotated file (its size is taken afterwards, in
\* BridgeReplaySize), or the lines after the stored offset of the tracked
\* file, read to the end of the file, with the offset set to where the read
\* stopped.  An exception ends the cycle.
BridgeAgent ==
    /\ bridge.pc = "agents"
    /\ bridge.todo # <<>>
    /\ BridgeFile(Head(bridge.todo).name, Head(bridge.todo).path,
                  FileLines(Head(bridge.todo).path))
    /\ UNCHANGED <<notBridge, bus_appends, sessions, session_writes>>

\* After the replay: `file_offsets[agent_name] = {'path': file_path,
\* 'offset': os.path.getsize(file_path)}`, the size of the file as it is now.
BridgeReplaySize ==
    /\ bridge.pc = "replay_size"
    /\ bridge' = [bridge EXCEPT
                    !.pc = "agents",
                    !.todo = Tail(@),
                    !.file_offsets =
                        Put(@, Head(bridge.todo).name,
                            [path |-> Head(bridge.todo).path,
                             offset |-> Len(FileLines(Head(bridge.todo).path))])]
    /\ UNCHANGED <<notBridge, bus, bus_appends, sessions, session_writes>>
\* The place of a key in the order of addition, for keys made of a numeric
\* native id (the runs that fill the set number their records).
AddedAt(key) == IF key.id.t = "int" THEN key.id.v ELSE 0

\* list(seen_ids)[-1000:]: the last 1000 keys in the iteration order of the
\* set, which is the order of the keys' hashes in the table and not the order
\* of addition, so that any 1000 keys may be the ones kept.  The choice is
\* drawn from the runs of 1000 keys that are consecutive when the order of
\* addition is rotated by one of TrimShifts: the newest 1000 keys, the 1000
\* before the newest key, and a run in the middle.
TrimShifts == {0, SEEN_SOFT_LIMIT, SEEN_SOFT_LIMIT \div 2}
TrimKeeps(seen, n) ==
    {{k \in seen : (AddedAt(k) + shift) % n >= n - SEEN_KEEP} : shift \in TrimShifts}

\* End of a cycle: the seen-key set is cut to 1000 of its keys once it holds
\* more than 5000.
BridgeTrim ==
    /\ bridge.pc = "agents"
    /\ bridge.todo = <<>>
    /\ IF Cardinality(bridge.seen_ids) > SEEN_SOFT_LIMIT
       THEN \E keep \in TrimKeeps(bridge.seen_ids, Cardinality(bridge.seen_ids)) :
               bridge' = [bridge EXCEPT !.pc = "sleep", !.seen_ids = keep]
       ELSE bridge' = [bridge EXCEPT !.pc = "sleep"]
    /\ UNCHANGED <<notBridge, bus, bus_appends, sessions, session_writes>>

\* time.sleep(1.0), then the next cycle
BridgeSleep ==
    /\ bridge.pc = "sleep"
    /\ bridge' = [bridge EXCEPT !.pc = "list"]
    /\ UNCHANGED <<notBridge, bus, bus_appends, sessions, session_writes>>

Bridge == BridgeList \/ BridgeAgent \/ BridgeReplaySize \/ BridgeTrim \/ BridgeSleep

\* The agent runtime appends a line to the latest transcript of a directory
\* (creating the first file when there is none).
TranscriptAppend(lines) ==
    /\ session_writes < MaxTranscriptAppends
    /\ \E d \in DOMAIN sessions, l \in lines :
          sessions' = [sessions EXCEPT ![d] =
                          IF @ = <<>> THEN <<<<l>>>>
                          ELSE [@ EXCEPT ![Len(@)] = Append(@, l)]]
    /\ session_writes' = session_writes + 1
    /\ UNCHANGED <<notBridge, bus, bus_appends, bridge>>

\* The agent runtime starts a new transcript file in a directory.
TranscriptRotate(lines) ==
    /\ session_writes < MaxTranscriptAppends
    /\ \E d \in DOMAIN sessions, l \in lines :
          /\ sessions[d] # <<>>
          /\ sessions' = [sessions EXCEPT ![d] = Append(@, <<l>>)]
    /\ session_writes' = session_writes + 1
    /\ UNCHANGED <<notBridge, bus, bus_appends, bridge>>

\* The agent runtime rewrites its latest transcript with a single line: the
\* file is now shorter than the offset the bridge may hold for it.
TranscriptTruncate(lines) ==
    /\ session_writes < MaxTranscriptAppends
    /\ \E d \in DOMAIN sessions, l \in lines :
          /\ sessions[d] # <<>>
          /\ Len(sessions[d][Len(sessions[d])]) > 1
          /\ sessions' = [sessions EXCEPT ![d] = [@ EXCEPT ![Len(@)] = <<l>>]]
    /\ session_writes' = session_writes + 1
    /\ UNCHANGED <<notBridge, bus, bus_appends, bridge>>

\* Any emitter appends a line to the event log.
EmitterAppend(lines) ==
    /\ bus_appends < MaxBusAppends
    /\ \E l \in lines : bus' = Append(bus, l)
    /\ bus_appends' = bus_appends + 1
    /\ UNCHANGED <<OPENCLAW_MODE, clock, fileVars, storeVars, state_lock, bootVars,
                   emitted, tail, poll, callers, bridgeVars>>

\* An emitter sends its last line again (a retry): the log ends with two
\* equal lines.
EmitterRepeat ==
    /\ bus # <<>>
    /\ bus_appends < MaxBusAppends + MaxBusRepeats
    /\ bus' = Append(bus, bus[Len(bus)])
    /\ bus_appends' = bus_appends + 1
    /\ UNCHANGED <<OPENCLAW_MODE, clock, fileVars, storeVars, state_lock, bootVars,
                   emitted, tail, poll, callers, bridgeVars>>

\* ------------------------------------------------------------------ inputs
NameMercurio == <<"M","e","r","c","u","r","i","o">>
NameLower == <<"m","e","r","c","u","r","i","o">>
NamePadded == <<" ","M","e","r","c","u","r","i","o"," ">>
NameVenus == <<"V","e","n","u","s">>
MsgHello == <<"h","e","l","l","o">>
MsgUserHi == <<"u","s","e","r",":"," ","h","i">>
ThoughtPlan == <<"p","l","a","n">>

\* Scenario A of the specification.
EvScenarioA ==
    ("agent" :> VStr(NameMercurio)) @@ ("status" :> Txt("Active"))
    @@ ("task" :> Txt("Testing")) @@ ("ts" :> Txt("2026-02-12T12:00:00Z"))
    @@ ("recent_messages" :> VList(<<MsgHello>>))
\* The same agent spelled in lower case, and padded with blanks.
EvLower ==
    ("agent" :> VStr(NameLower)) @@ ("status" :> Txt("Idle"))
    @@ ("ts" :> Txt("2026-02-12T12:01:00Z"))
EvPadded ==
    ("agent" :> VStr(NamePadded)) @@ ("status" :> Txt("Busy"))
    @@ ("ts" :> Txt("2026-02-12T12:02:00Z"))
\* An event that carries a resource hint and a thought, but no status or task.
EvSparse ==
    ("agent" :> VStr(NameMercurio)) @@ ("cpu" :> Txt("5%"))
    @@ ("recent_thoughts" :> VList(<<ThoughtPlan>>))
    @@ ("ts" :> Txt("2026-02-12T12:03:00Z"))
\* A user message for a second agent, naming the first.
EvVenus ==
    ("agent" :> VStr(NameVenus)) @@ ("status" :> Txt("Active"))
    @@ ("task" :> Txt("Chat")) @@ ("recent_messages" :> VList(<<MsgUserHi>>))
\* Unexpected shapes: recent_messages null, agent a list.
EvNullMessages ==
    ("agent" :> VStr(NameMercurio)) @@ ("status" :> Txt("Active"))
    @@ ("recent_messages" :> NoneV)
EvListAgent ==
    ("agent" :> VList(<<NameMercurio>>)) @@ ("status" :> Txt("Active"))
\* Rows the tailer skips.
EvSystem == ("agent" :> VStr(NameMercurio)) @@ ("from" :> Txt("system"))
EvNoEmitter == ("status" :> Txt("Active"))

EventLine(ev) == JsonLine(VMap(ev))
NonMapLine == JsonLine(VList(<<>>))

\* Registry answers of the control plane.
RegistryItem(id, name) == [id |-> id, name |-> name]
PayloadsDown == [agents |-> NoneV, cron |-> NoneV, status |-> NoneV]
PayloadsEmpty == [agents |-> VList(<<>>), cron |-> VMap(EmptyDict), status |-> NoneV]
PayloadsMercurio ==
    [agents |-> VList(<<RegistryItem(VStr(NameLower), NoneV)>>), cron |-> VMap(EmptyDict),
     status |-> NoneV]

\* ---------------------------------------------------------- initial states
TailInit == [pc |-> "not_started", pos |-> 0, initial_events |-> <<>>,
             event |-> EmptyDict, normalized |-> EmptyDict, merged |-> EmptyDict]
PollInit == [pc |-> "not_started", cycles |-> 0, payloads |-> PayloadsDown,
             states |-> <<>>, init_needed |-> FALSE, changed |-> <<>>]
BridgeInit == [pc |-> "not_started", file_offsets |-> EmptyDict, seen_ids |-> {},
               todo |-> <<>>]
CallerInit == [pc |-> "idle", kind |-> "request", seen |-> FALSE, waited |-> 0,
               data |-> <<>>, ready |-> FALSE,
               cron_by_agent |-> EmptyDict, cron_info |-> CronSummaryInit,
               args |-> <<>>]

\* The state of a process before its threads start (module level of
\* src/app.py) in a given environment: mode, event log, side logs, transcript
\* directories, and the interaction index it holds.
InitWith(modes, buses, sidelogs, transcripts, entries, indexes) ==
    /\ OPENCLAW_MODE \in modes
    /\ clock = 0
    /\ bus \in buses
    /\ bus_appends = 0
    /\ invalid_archive = <<>>
    /\ history_files \in sidelogs
    /\ agent_state = <<>>
    /\ BUS_READY = FALSE
    /\ interactions \in indexes
    /\ cron_details_by_agent = EmptyDict
    /\ cron_summary = CronSummaryInit
    /\ state_lock = "free"
    /\ bootstrap_lock = "free"
    /\ started_flags = [bus_reader |-> FALSE, session_bridge |-> FALSE,
                        core_monitor |-> FALSE]
    /\ threads = [tail_bus |-> 0, bridge |-> 0, core_monitor |-> 0]
    /\ emitted = <<>>
    /\ tail = TailInit
    /\ poll = PollInit
    /\ callers \in entries
    /\ bridge = BridgeInit
    /\ sessions \in transcripts
    /\ session_writes = 0

\* recent_user_agent, recent_agent_agent, interaction_seen_order and
\* interaction_seen_set of a fresh process (src/app.py 44-47)
InteractionsInit == [ua |-> <<>>, aa |-> <<>>, order |-> <<>>, seen |-> {}]

\* ... with callers that have not entered yet
InitFrom(modes, buses, sidelogs, transcripts, ids, indexes) ==
    InitWith(modes, buses, sidelogs, transcripts, {[c \in ids |-> CallerInit]}, indexes)

InitIn(modes, buses, sidelogs, transcripts, ids) ==
    InitFrom(modes, buses, sidelogs, transcripts, ids, {InteractionsInit})

NoSideLogs == {EmptyDict}
NoTranscripts == {EmptyDict}

\* ------------------------------------------- the store under tailer and poller
StoreLines == {EventLine(EvLower), EventLine(EvSparse), EventLine(EvNullMessages),
               EventLine(EvListAgent), EventLine(EvSystem), NonMapLine, GarbageLine}
StorePayloads == {PayloadsDown, PayloadsMercurio}

InitStore ==
    InitIn({"auto", "legacy"}, {<<>>, <<EventLine(EvScenarioA)>>}, NoSideLogs,
           NoTranscripts, {"c1"})

NextStore ==
    \/ Starter("c1", {"request"})
    \/ Tailer
    \/ PollerSteps(StorePayloads)
    \/ EmitterAppend(StoreLines)

SpecStore == InitStore /\ [][NextStore]_vars

\* C1: no two stored snapshots have the same identity once the identity is
\* trimmed and lower-cased.
C1_UniqueIdentity ==
    \A i, j \in 1..Len(agent_state) :
        i # j => normalize_agent_name(agent_state[i].k)
                    # normalize_agent_name(agent_state[j].k)

\* The fields the Follow merge is said to take from the event when present
\* and to keep otherwise.
FollowFields ==
    {"status", "task", "cron_jobs", "active_missions", "cpu", "mem",
     "recent_messages", "recent_thoughts", "current_thought"}

\* C2: a Follow merge gives each of these fields the event's value when the
\* event carries one, and leaves the stored value alone when it does not.
C2_FollowFrame ==
    [][(tail.pc = "follow_merge" /\ tail'.pc = "follow_emit") =>
          \A k \in FollowFields :
              IF Get(tail.event, k) # NoneV
              THEN Get(ODGet(agent_state', tail.normalized["agent"]), k) = tail.event[k]
              ELSE k \in DOMAIN ODGet(agent_state, tail.normalized["agent"]) =>
                      Get(ODGet(agent_state', tail.normalized["agent"]), k)
                        = ODGet(agent_state, tail.normalized["agent"])[k]]_vars

\* C3: a field a stored snapshot contains is contained in it after every
\* step of every task.
C3_FieldsKept ==
    [][\A i \in 1..Len(agent_state) :
          /\ ODHas(agent_state', agent_state[i].k)
          /\ DOMAIN agent_state[i].v \subseteq DOMAIN ODGet(agent_state', agent_state[i].k)]_vars

\* Positions of the tailer before the end of Bootstrap (the init broadcast
\* and the flag assignment included).
BootstrapPcs ==
    {"not_started", "boot_read", "boot_lock", "boot_populate", "boot_emit", "boot_ready"}

\* C5: the ready flag is never true while the tailer has not finished
\* Bootstrap and pushed the initial full state.
C5_ReadyAfterBootstrap == BUS_READY => tail.pc \notin BootstrapPcs

\* C8: no line of the log ends the tailer, in Bootstrap or in Follow.
C8_TailerSurvives == tail.pc # "dead"

\* --------------------------------------------- Bootstrap from a long side log
\* A side log as Follow leaves it after n distinct messages: Follow appends
\* every new entry to the file and never shortens it.
LongLog(n) ==
    [i \in 1..n |-> HistEntry("message", Txt("2026-02-12T11:00:00Z"), <<"m", ToString(i)>>)]

HistorySideLogs ==
    {(VStr(NameMercurio) :> LongLog(HISTORY_CAP + ExtraHistory)),
     (VStr(NameMercurio) :> LongLog(ExtraHistory))}

HistoryLines == {EventLine(EvScenarioA), EventLine(EvSparse)}

InitHistory ==
    InitIn({"legacy"}, {<<EventLine(EvScenarioA)>>}, HistorySideLogs, NoTranscripts, {"c1"})

NextHistory ==
    \/ Starter("c1", {"request"})
    \/ Tailer
    \/ EmitterAppend(HistoryLines)

SpecHistory == InitHistory /\ [][NextHistory]_vars

\* C4: the message history and the thought history of every stored snapshot
\* hold at most 200 entries, also right after Bootstrap reloaded them.
C4_HistoryCapped ==
    \A i \in 1..Len(agent_state) :
        /\ Len(GetD(agent_state[i].v, "message_history", VList(<<>>)).v) <= HISTORY_CAP
        /\ Len(GetD(agent_state[i].v, "thought_history", VList(<<>>)).v) <= HISTORY_CAP

\* ----------------------------------------- handlers against the ready flag
HandlerIds == {"c1", "c2"}
HandlerPayloads == {PayloadsMercurio}

InitHandlers ==
    InitIn({"auto", "legacy"}, {<<EventLine(EvScenarioA)>>}, NoSideLogs, NoTranscripts,
           HandlerIds)

NextHandlers ==
    \/ Starter("c1", {"connect"})
    \/ Starter("c2", {"init_request"})
    \/ \E c \in HandlerIds : Handler(c)
    \/ TailerBoot
    \/ PollerCycle(HandlerPayloads)

SpecHandlers == InitHandlers /\ [][NextHandlers]_vars

\* The notifications a step adds to the log of notifications.
NewNotifications == {i \in 1..Len(emitted') : i > Len(emitted)}

\* C6: a handler replies init_pending when it read the ready flag as false
\* and never delivers a targeted init then; a targeted init comes only from
\* a handler that read the flag as true (and the flag is then true).
C6_TargetedReplies ==
    [][\A c \in DOMAIN callers :
          /\ (callers[c].pc \in {"conn_final", "ir_reply"} /\ callers'[c].pc # callers[c].pc)
                => callers'[c].ready = BUS_READY
          /\ \A i \in NewNotifications :
                emitted'[i].room = c =>
                    /\ callers[c].pc \in {"conn_emit", "ir_emit"}
                    /\ IF callers[c].ready
                       THEN emitted'[i].event = "init" /\ BUS_READY
                       ELSE emitted'[i].event = "init_pending"]_vars

\* One client was told to wait and another got the targeted full state.
C6_Witness ==
    /\ \E i \in 1..Len(emitted) : emitted[i] = Notify("init_pending", "c1", <<>>)
    /\ \E i \in 1..Len(emitted) :
          /\ emitted[i].event = "init"
          /\ emitted[i].room = "c2"
          /\ emitted[i].data # <<>>

\* ------------------------------------------------ concurrent entry points
StartIds == {"c1", "c2", "c3"}
StartModes == {"auto", "legacy", "core-only-passive", "custom"}

InitStart == InitIn(StartModes, {<<>>}, NoSideLogs, NoTranscripts, StartIds)

NextStart ==
    \E c \in StartIds : Starter(c, {"main", "request", "connect", "init_request"})

SpecStart == InitStart /\ [][NextStart]_vars

\* The caller is back from start_bus_reader.
Returned(c) == callers[c].pc \in {"sb_return", "conn_copy", "ir_copy", "done"}

\* C7: every background task is started at most once however many entry
\* points run concurrently; once a caller is back from the start routine,
\* auto mode has started all three, core-only-passive only the core
\* monitor, legacy only the tailer and the session bridge.
C7_StartedOnce ==
    /\ \A t \in DOMAIN threads : threads[t] <= 1
    /\ (\E c \in DOMAIN callers : Returned(c)) =>
          CASE OPENCLAW_MODE = "auto" ->
                  threads = [tail_bus |-> 1, bridge |-> 1, core_monitor |-> 1]
            [] OPENCLAW_MODE = "core-only-passive" ->
                  threads = [tail_bus |-> 0, bridge |-> 0, core_monitor |-> 1]
            [] OPENCLAW_MODE = "legacy" ->
                  threads = [tail_bus |-> 1, bridge |-> 1, core_monitor |-> 0]
            [] OTHER -> TRUE

\* Three entry points have gone through the start routine in auto mode.
C7_Witness ==
    /\ OPENCLAW_MODE = "auto"
    /\ \A c \in DOMAIN callers : Returned(c) /\ callers[c].kind # "main"
    /\ threads = [tail_bus |-> 1, bridge |-> 1, core_monitor |-> 1]

\* --------------------------------------------- the poller under exceptions
\* The control plane is down or knows no agent, and the log holds no event:
\* what the poller does about an exception does not depend on the data.
PollPayloads == {PayloadsDown, PayloadsEmpty}

InitPoll ==
    InitIn({"auto"}, {<<GarbageLine>>, <<BlankLine, EventLine(EvSystem)>>}, NoSideLogs,
           NoTranscripts, {"c1"})

NextPoll ==
    \/ Starter("c1", {"request"})
    \/ TailerBoot
    \/ Poller(PollPayloads)

\* The scheduler keeps running the poller: whenever one of its steps can be
\* taken again and again (state_lock is free among the times it waits for
\* it), the step is taken; the tailer leaves its locked block.  Exceptions
\* (PollRaise) are never forced.
FairPoll ==
    /\ SF_vars(PollerSteps(PollPayloads))
    /\ WF_vars(TailBootPopulate)

SpecPoll == InitPoll /\ [][NextPoll]_vars /\ FairPoll

\* Positions of core_only_monitor inside its try block.
PollTry == {"fetch", "capabilities", "cron", "synth", "lock", "merge", "post", "ready"}

\* C9: the poller never ends; whatever is raised inside a cycle, the cycle
\* reaches the sleep with state_lock not held by the poller, and the next
\* cycle is run.
C9_PollerGoesOn ==
    /\ [](poll.pc # "dead")
    /\ [](poll.pc \in {"not_started", "sleep", "fetch"} => state_lock # "poller")
    /\ (poll.pc \in PollTry ~> poll.pc = "sleep")
    /\ ((poll.pc = "sleep" /\ poll.cycles < MaxPollCycles) ~> poll.pc = "fetch")

\* A later cycle has begun after a cycle that raised (its schedule query was
\* unavailable, which compute_core_capabilities does not survive).
C9_Witness ==
    /\ poll.pc = "fetch"
    /\ poll.cycles >= 1
    /\ poll.payloads.cron = NoneV
    /\ state_lock # "poller"

\* ------------------------------------------------- the bridge and the store
EntryUser ==
    ("id" :> Txt("e1")) @@ ("timestamp" :> Txt("2026-02-12T12:10:00Z"))
    @@ ("message" :> VMap(("role" :> VStr(CharsUser))
                          @@ ("content" :> VList(<<VMap(("type" :> VStr(CharsText))
                                                        @@ ("text" :> VStr(MsgHello)))>>))))
EntryThinking ==
    ("timestamp" :> Txt("2026-02-12T12:11:00Z"))
    @@ ("message" :> VMap(("role" :> VStr(CharsAssistant))
                          @@ ("content" :> VList(<<VMap(("type" :> VStr(CharsThinking))
                                                        @@ ("thinking" :> VStr(ThoughtPlan)))>>))))

BridgeLinesIn == {EventLine(EntryThinking), GarbageLine}
BridgeTranscripts == {(NameLower :> <<>>), (NameLower :> <<<<EventLine(EntryUser)>>>>)}

InitBridge ==
    InitIn({"legacy"}, {<<EventLine(EvScenarioA)>>}, NoSideLogs, BridgeTranscripts, {"c1"})

NextBridge ==
    \/ Starter("c1", {"request"})
    \/ Tailer
    \/ Bridge
    \/ TranscriptAppend(BridgeLinesIn)
    \/ TranscriptRotate(BridgeLinesIn)

SpecBridge == InitBridge /\ [][NextBridge]_vars

\* C10: a step of the bridge changes nothing but its own bookkeeping and the
\* event log, to which it only appends: the agent map, the ring buffers and
\* dedupe index, the ready flag and the notifications stay as they were.
C10_BridgeFrame ==
    [][(bridge.pc # "not_started" /\ bridge' # bridge) =>
          /\ UNCHANGED <<agent_state, interactions, BUS_READY, emitted>>
          /\ UNCHANGED <<OPENCLAW_MODE, clock, bus_appends, fileVars, state_lock, bootVars,
                         tail, poll, callers, sessions, session_writes>>
          /\ Len(bus') >= Len(bus)
          /\ SubSeq(bus', 1, Len(bus)) = bus]_vars

\* The bridge has mirrored a transcript entry into the log and the tailer
\* has merged it.
C10_Witness ==
    /\ \E i \in 1..Len(bus) :
          bus[i].j = "json" /\ Get(bus[i].val.v, "source") = Txt("session-bridge")
    /\ \E i \in 1..Len(agent_state) :
          Get(GetD(agent_state[i].v, "raw", VMap(EmptyDict)).v, "source")
            = Txt("session-bridge")

\* ------------------------------------------------ the bridge's seen-key set
NameVenusLower == <<"v","e","n","u","s">>
DedupeLinesIn == {EventLine(EntryUser), EventLine(EntryThinking)}
DedupeTranscripts ==
    {(NameLower :> <<<<EventLine(EntryUser), EventLine(EntryThinking)>>>>)
       @@ (NameVenusLower :> files) :
         files \in {<<>>, <<<<EventLine(EntryUser)>>>>}}

InitDedupe ==
    InitIn({"legacy"}, {<<EventLine(EvScenarioA)>>}, NoSideLogs, DedupeTranscripts, {"c1"})

NextDedupe ==
    \/ Starter("c1", {"request"})
    \/ Bridge
    \/ TranscriptAppend(DedupeLinesIn)
    \/ TranscriptRotate(DedupeLinesIn)
    \/ TranscriptTruncate(DedupeLinesIn)

SpecDedupe == InitDedupe /\ [][NextDedupe]_vars

\* The keys of the entries the bridge is about to read for the agent at the
\* head of its list.
PendingKeys ==
    LET entries == ParsedLines(BridgeLines(Head(bridge.todo).name, Head(bridge.todo).path,
                                           FileLines(Head(bridge.todo).path)))
    IN  {session_entry_dedupe_key(entries[i]) : i \in 1..Len(entries)} \ {NoKey}

\* The lines of the event log that the bridge wrote.
BridgeWritten(log) ==
    {i \in 1..Len(log) :
        log[i].j = "json" /\ Get(log[i].val.v, "source") = Txt("session-bridge")}

\* C11: in every pass of the bridge over one agent's file (replay of the
\* last 4 records of a new or rotated file, re-read of a truncated file, or
\* incremental read) no record whose key is in the seen-key set is appended
\* to the event log and a key is appended at most once: the pass appends at
\* most one event per distinct key that was not in the set, and every key in
\* the set stays in it.
C11_AppendedOncePerKey ==
    [][(bridge.pc = "agents" /\ bridge.todo # <<>> /\ bridge' # bridge) =>
          /\ Len(bus') - Len(bus) <= Cardinality(PendingKeys \ bridge.seen_ids)
          /\ bridge.seen_ids \subseteq bridge'.seen_ids
          /\ bridge'.seen_ids \subseteq bridge.seen_ids \cup PendingKeys]_vars

\* The bridge read both records of Mercurio's transcript, the transcript was
\* then rewritten with the record of native id e1 alone (the only write of
\* the run), the bridge re-read the shorter file from its start, and the log
\* still holds two bridge events.
C11_Witness ==
    /\ session_writes = 1
    /\ NameMercurio \in DOMAIN bridge.file_offsets
    /\ bridge.file_offsets[NameMercurio].path.n = 1
    /\ bridge.file_offsets[NameMercurio].offset = 1
    /\ FileLines(bridge.file_offsets[NameMercurio].path) = <<EventLine(EntryUser)>>
    /\ Cardinality(bridge.seen_ids) = 2
    /\ Cardinality(BridgeWritten(bus)) = 2

\* ------------------------------------------------- the state lock and files
\* C12: a step a task takes while it holds state_lock (the tailer in
\* Bootstrap and Follow, the poller in its merge) writes no file: the
\* history side logs, the invalid-lines archive and the event log are the
\* same after the step.
C12_NoFileWriteUnderLock ==
    [][/\ (state_lock = "tailer" /\ tail' # tail) =>
              UNCHANGED <<history_files, invalid_archive, bus>>
       /\ (state_lock = "poller" /\ poll' # poll) =>
              UNCHANGED <<history_files, invalid_archive, bus>>]_vars

\* ------------------------------------------------ the cron index and summary
JobHeartbeat(next_run_ms) ==
    VMap(("agentId" :> VStr(NameLower)) @@ ("name" :> Txt("heartbeat"))
         @@ ("enabled" :> VBool(TRUE))
         @@ ("state" :> VMap("nextRunAtMs" :> VInt(next_run_ms))))
JobReport ==
    VMap(("agentId" :> VStr(NameLower)) @@ ("name" :> Txt("report"))
         @@ ("enabled" :> VBool(TRUE))
         @@ ("state" :> VMap(("nextRunAtMs" :> VInt(600000)) @@ ("lastStatus" :> Txt("ok")))))

PayloadsJobs(jobs) ==
    [agents |-> VList(<<RegistryItem(VStr(NameLower), VStr(NameMercurio))>>),
     cron |-> VMap("jobs" :> VList(jobs)), status |-> NoneV]

CronPayloads == {PayloadsJobs(<<JobReport>>), PayloadsJobs(<<>>)}

InitCron == InitIn({"core-only-passive", "auto"}, {<<>>}, NoSideLogs, NoTranscripts, {"c1"})

NextCron ==
    \/ Starter("c1", {"insights"})
    \/ Insights("c1")
    \/ Poller(CronPayloads)

SpecCron == InitCron /\ [][NextCron]_vars

\* C13: the copies of the cron index and of the cron summary that a reader
\* took under state_lock stem from one and the same poll cycle: both are
\* the module's initial values, or both are what build_cron_details makes
\* of one control-plane answer.
C13_CronPairOfOneCycle ==
    \A c \in DOMAIN callers :
        (callers[c].kind = "insights" /\ callers[c].pc = "done") =>
            \/ /\ callers[c].cron_by_agent = EmptyDict
               /\ callers[c].cron_info = CronSummaryInit
            \/ \E p \in CronPayloads :
                  /\ callers[c].cron_by_agent = CronDetails(EmptyDict, CronJobs(p))
                  /\ callers[c].cron_info
                       = CronSummary(CronDetails(EmptyDict, CronJobs(p)), CronJobs(p))

\* ---------------------------------------------------- update notifications
UpdateLines == {EventLine(EvScenarioA), EventLine(EvSparse)}

InitUpdates ==
    InitIn({"legacy", "auto"}, {<<EventLine(EvScenarioA)>>}, NoSideLogs, NoTranscripts,
           {"c1"})

NextUpdates ==
    \/ Starter("c1", {"request"})
    \/ Tailer
    \/ PollerSteps(StorePayloads)
    \/ EmitterAppend(UpdateLines)
    \/ EmitterRepeat

SpecUpdates == InitUpdates /\ [][NextUpdates]_vars

\* C14: an update is emitted only for a snapshot that the merge changed by
\* value.  A Follow merge that goes on to emit its update has changed the
\* agent map, and the update carries the merged snapshot; every payload the
\* poller merge queues for an update differs from the snapshot stored for
\* its agent before the merge, and the poller emits updates for the queued
\* payloads only.
C14_UpdateMeansChange ==
    [][/\ (tail.pc = "follow_merge" /\ tail'.pc = "follow_emit") =>
              agent_state' # agent_state
       /\ (tail.pc = "follow_emit" /\ tail' # tail) =>
              emitted' = Append(emitted, Notify("update", "all", tail.merged))
       /\ (poll.pc = "merge" /\ poll'.pc = "post") =>
              \A i \in 1..Len(poll'.changed) :
                  poll'.changed[i] # ODGet(agent_state, Get(poll'.changed[i], "agent"))
       /\ (poll.pc = "post" /\ poll'.pc = "ready" /\ ~poll.init_needed) =>
              emitted' = emitted \o Updates(poll.changed)]_vars

\* The notifications a step adds.
NewEmitted == SubSeq(emitted', Len(emitted) + 1, Len(emitted'))

C16_OneBroadcastInit ==
    Cardinality({i \in 1..Len(emitted) :
                   emitted[i].event = "init" /\ emitted[i].room = "all"}) <= 1

\* ------------------------------------------------- control-plane-only mode
SessionRecord(age, updated_at) ==
    VMap(("agentId" :> VStr(NameLower)) @@ ("age" :> VInt(age))
         @@ ("updatedAt" :> VInt(updated_at)) @@ ("model" :> Txt("gpt"))
         @@ ("totalTokens" :> VInt(123)))

PayloadsSession(jobs, records) ==
    [agents |-> VList(<<RegistryItem(VStr(NameLower), VStr(NameMercurio))>>),
     cron |-> VMap("jobs" :> VList(jobs)),
     status |-> VMap("sessions" :> VMap("recent" :> VList(records)))]

CoreOnlyPayloads ==
    {PayloadsSession(<<>>, <<SessionRecord(120000, 1000)>>),
     PayloadsSession(<<JobReport>>, <<>>),
     PayloadsMercurio,
     PayloadsEmpty}

InitCoreOnly == InitIn({"core-only-passive"}, {<<>>}, NoSideLogs, NoTranscripts, {"c1"})

NextCoreOnly ==
    \/ \E c \in {"c1"} : CallerBegin(c, {"insights"}) \/ EnsureAcquire(c)
                          \/ StartCoreCheck(c) \/ StartCoreSpawn(c) \/ EnsureRelease(c)
    \/ Insights("c1")
    \/ Poller(CoreOnlyPayloads)

SpecCoreOnly == InitCoreOnly /\ [][NextCoreOnly]_vars

\* C17: in core-only-passive mode the poller merge leaves, for every
\* synthesized snapshot, a stored snapshot of that agent whose status, task
\* and recent_messages are those of the synthesized one, whose
\* recent_thoughts is empty and whose current_thought is '', whatever was
\* stored; and the ready flag is set when the merge was given a snapshot.
C17_CoreOnlyReplaces ==
    [][(OPENCLAW_MODE = "core-only-passive" /\ poll.pc = "merge" /\ poll'.pc = "post") =>
          /\ \A i \in 1..Len(poll.states) :
                LET current == poll.states[i]
                    stored == ODGet(agent_state', Get(current, "agent"))
                IN  /\ ODHas(agent_state', Get(current, "agent"))
                    /\ Get(stored, "status") = Get(current, "status")
                    /\ Get(stored, "task") = Get(current, "task")
                    /\ Get(stored, "recent_messages") = Get(current, "recent_messages")
                    /\ Get(stored, "recent_thoughts") = VList(<<>>)
                    /\ Get(stored, "current_thought") = EmptyStr
          /\ poll.states # <<>> => BUS_READY']_vars

\* The first cycle found a fresh session record (Active, one message) and
\* broadcast it; the second found none and its merge has just replaced the
\* stored status by Idle and the messages by the empty list.
C17_Witness ==
    /\ OPENCLAW_MODE = "core-only-passive"
    /\ poll.pc = "post"
    /\ poll.cycles = 1
    /\ BUS_READY
    /\ Len(agent_state) = 1
    /\ Get(agent_state[1].v, "status") = Txt("Idle")
    /\ Get(agent_state[1].v, "recent_messages") = VList(<<>>)
    /\ \E i \in 1..Len(emitted) :
          /\ emitted[i].event = "init"
          /\ emitted[i].data # <<>>
          /\ Get(emitted[i].data[1], "status") = Txt("Active")
          /\ Get(emitted[i].data[1], "recent_messages") # VList(<<>>)

\* --------------------------------------------------- the synthesized status
NameHerald == <<"H","e","r","a","l","d">>
JobFailed ==
    VMap(("agentId" :> VStr(NameLower)) @@ ("name" :> Txt("digest"))
         @@ ("enabled" :> VBool(TRUE))
         @@ ("state" :> VMap(("nextRunAtMs" :> VInt(600000))
                             @@ ("lastStatus" :> Txt("error")))))

\* A control-plane answer whose one agent has registry id mercurio and the
\* given display name.
PayloadsNamed(name, jobs, records) ==
    [agents |-> VList(<<RegistryItem(VStr(NameLower), name)>>),
     cron |-> VMap("jobs" :> VList(jobs)),
     status |-> VMap("sessions" :> VMap("recent" :> VList(records)))]

SynthPayloads ==
    {PayloadsNamed(name, jobs, records) :
        name \in {NoneV, VStr(NameMercurio), VStr(NameHerald)},
        jobs \in {<<>>, <<JobReport>>, <<JobFailed>>},
        records \in {<<>>, <<SessionRecord(120000, 1000)>>, <<SessionRecord(900000, 1000)>>}}

InitSynth == InitIn({"core-only-passive"}, {<<>>}, NoSideLogs, NoTranscripts, {"c1"})

NextSynth ==
    \/ \E c \in {"c1"} : CallerBegin(c, {"request"}) \/ EnsureAcquire(c)
                          \/ StartCoreCheck(c) \/ StartCoreSpawn(c) \/ EnsureRelease(c)
    \/ PollerSteps(SynthPayloads)

SpecSynth == InitSynth /\ [][NextSynth]_vars

\* The status the priority list gives the agent with registry id agent_id,
\* from the jobs and session records of one control-plane answer at time now.
PriorityStatus(payloads, agent_id, now) ==
    LET jobs == SelectSeq(CronJobs(payloads),
                          LAMBDA j : j.t = "map" /\ JobAgentId(j) = agent_id)
        record == RecentOf(NoneV, RecentSessions(payloads), agent_id)
        next_run == NextRunMs(EnabledJobs(CronJobs(payloads), agent_id))
    IN  IF \E i \in 1..Len(jobs) : JobLastStatus(jobs[i]) \notin {Txt("ok"), Txt("success")}
        THEN Txt("Attention")
        ELSE IF record # NoneV /\ PyOr(Get(record.v, "age"), VInt(0)).v <= SESSION_FRESH_MS
        THEN Txt("Active")
        ELSE IF next_run # NoneV /\ DeltaSec(next_run.v, NowMs(now)) <= CRON_SOON_SEC
        THEN Txt("Active")
        ELSE IF record # NoneV THEN Txt("Observed")
        ELSE Txt("Idle")

\* C18: after the cron rebuild and the synthesis of a poll cycle, every
\* registered agent, whatever its id and display name, has the status of the
\* priority list: Attention, else Active (fresh session), else Active (next
\* run in at most 2 minutes), else Observed, else Idle.
C18_StatusPriority ==
    poll.pc = "lock" =>
        \A i \in 1..Len(poll.states) :
            Get(poll.states[i], "status")
              = PriorityStatus(poll.payloads,
                               StrLower(StrStrip(StrOfName(poll.payloads.agents.v[i].id))),
                               clock)

\* --------------------------------------------------------------- scenario B
\* The job of scenario B: enabled, next run 3 minutes after the start of the
\* run, nothing else in its state; and the same job after an ok run.
SCENARIO_B_NEXT_RUN_MS == 180000
JobHeartbeatRan ==
    VMap(("agentId" :> VStr(NameLower)) @@ ("name" :> Txt("heartbeat"))
         @@ ("enabled" :> VBool(TRUE))
         @@ ("state" :> VMap(("nextRunAtMs" :> VInt(SCENARIO_B_NEXT_RUN_MS))
                             @@ ("lastStatus" :> Txt("ok")))))

ScenarioBPayloads ==
    {PayloadsJobs(<<JobHeartbeat(SCENARIO_B_NEXT_RUN_MS)>>), PayloadsJobs(<<JobHeartbeatRan>>)}

InitScenarioB == InitIn({"core-only-passive"}, {<<>>}, NoSideLogs, NoTranscripts, {"c1"})

NextScenarioB ==
    \/ \E c \in {"c1"} : CallerBegin(c, {"insights"}) \/ EnsureAcquire(c)
                          \/ StartCoreCheck(c) \/ StartCoreSpawn(c) \/ EnsureRelease(c)
    \/ Insights("c1")
    \/ PollerSteps(ScenarioBPayloads)

SpecScenarioB == InitScenarioB /\ [][NextScenarioB]_vars

\* C19: scenario B over full poll cycles.  After the cron rebuild and the
\* synthesis of a cycle, the agent (no session record, one enabled job with
\* its next run at minute 3) has a task that begins with "Next cron run in";
\* its status is Idle while the run is more than 2 minutes away and Active
\* in a later cycle in which it is at most 2 minutes away.
C19_ScenarioB ==
    (poll.pc = "lock" /\ Len(poll.states) = 1) =>
        /\ Get(poll.states[1], "task").v # <<>>
        /\ Get(poll.states[1], "task").v[1] = "Next cron run in "
        /\ Get(poll.states[1], "status")
             = IF DeltaSec(SCENARIO_B_NEXT_RUN_MS, NowMs(clock)) <= CRON_SOON_SEC
               THEN Txt("Active") ELSE Txt("Idle")

\* ------------------------------------------------ the interaction key index
MsgUserGo == <<"u","s","e","r",":"," ","g","o">>
MsgPing == CharsAssistant \o <<":"," ","p","i","n","g"," ">> \o NameMercurio

\* A second agent talks: to the user, and naming the first agent.
EvTalk ==
    ("agent" :> VStr(NameVenus)) @@ ("status" :> Txt("Active"))
    @@ ("ts" :> Txt("2026-02-12T12:04:00Z"))
    @@ ("recent_messages" :> VList(<<MsgUserHi, MsgPing>>))
EvTalkAgain ==
    ("agent" :> VStr(NameVenus)) @@ ("status" :> Txt("Active"))
    @@ ("ts" :> Txt("2026-02-12T12:05:00Z"))
    @@ ("recent_messages" :> VList(<<MsgUserGo, MsgUserHi>>))
IndexLines == {EventLine(EvTalk), EventLine(EvTalkAgain)}

\* The keys push_interaction builds for those messages.
KeyUserHi ==
    InteractionKey(<<"u","a">>, normalize_agent_name(VStr(NameVenus)), CharsUser,
                   <<"h","i">>)
KeyUserGo ==
    InteractionKey(<<"u","a">>, normalize_agent_name(VStr(NameVenus)), CharsUser,
                   <<"g","o">>)

\* The i-th of the user messages of an earlier conversation, its key (written
\* in two pieces, the prefix and the number) and its ring-buffer row.
PastText(i) == <<"m", ToString(i)>>
PastKey(i) == <<"ua|venus|user|m", ToString(i)>>
PastRow(i) ==
    [ts |-> Txt("2026-02-12T11:00:00Z"), agent |-> VStr(NameVenus), actor |-> CharsUser,
     text |-> PastText(i), mentions |-> <<>>]

\* The index and the user ring as n accepted keys leave them, the oldest of
\* them being `first`: every accepted key is appended to the order and added
\* to the set, and its row is pushed on the left of the ring.
PastIndex(first, n) ==
    LET key(i) == IF i = 1 THEN first ELSE PastKey(i)
        rows == IF n < INTERACTION_RING_MAX THEN n ELSE INTERACTION_RING_MAX
    IN  [ua |-> [j \in 1..rows |-> PastRow(n + 1 - j)],
         aa |-> <<>>,
         order |-> [i \in 1..n |-> key(i)],
         seen |-> {key(i) : i \in 1..n}]

\* Indexes one and two keys short of the capacity, and at the capacity; the
\* oldest key is one of the past conversation or the key of "user: hi".
IndexStates ==
    {PastIndex(first, n) : first \in {PastKey(1), KeyUserHi},
                           n \in (INTERACTION_SEEN_MAX - 2)..INTERACTION_SEEN_MAX}

InitIndex ==
    InitFrom({"legacy"}, {<<EventLine(EvScenarioA)>>}, NoSideLogs, NoTranscripts, {"c1"},
             IndexStates)

NextIndex ==
    \/ Starter("c1", {"request"})
    \/ Tailer
    \/ EmitterAppend(IndexLines)
    \/ EmitterRepeat

SpecIndex == InitIndex /\ [][NextIndex]_vars

\* The keys of a sequence.
KeysOf(order) == {order[i] : i \in 1..Len(order)}

\* The number of rows pushed on the left of a ring of 250 between two of its
\* states.
RowsPushed(ring, ring2) ==
    CHOOSE k \in 0..INTERACTION_RING_MAX :
        /\ k <= Len(ring2)
        /\ ring2 = FirstN(SubSeq(ring2, 1, k) \o ring, INTERACTION_RING_MAX)
        /\ \A j \in 0..(k - 1) :
              ring2 # FirstN(SubSeq(ring2, 1, j) \o ring, INTERACTION_RING_MAX)

\* One change of the index from ix to ix2 by one event (its last
\* PUSH_LAST_MESSAGES messages, each naming at most the two agents of the
\* runs considered here): some keys were accepted, each
\* absent from the window of the INTERACTION_SEEN_MAX keys accepted before
\* it; they stand at the end of the order, in front of them the old order
\* less as many of its oldest keys as the capacity made necessary; and one
\* row went into a ring per accepted key.
IndexStep(ix, ix2) ==
    \E a \in 1..(2 * PUSH_LAST_MESSAGES) :
        /\ a <= Len(ix2.order)
        /\ LET new == LastN(ix2.order, a)
               all == ix.order \o new
               window(j) == LastN(SubSeq(all, 1, Len(ix.order) + j - 1),
                                  INTERACTION_SEEN_MAX)
           IN  /\ ix2.order = LastN(all, INTERACTION_SEEN_MAX)
               /\ \A j \in 1..a : new[j] \notin KeysOf(window(j))
               /\ RowsPushed(ix.ua, ix2.ua) + RowsPushed(ix.aa, ix2.aa) = a

\* C20: the index never holds more than INTERACTION_SEEN_MAX keys, its set
\* and its order hold the same keys, none of them twice; every change of
\* the index accepts keys that were not among the INTERACTION_SEEN_MAX most
\* recently accepted ones, drops the oldest keys first and only when the
\* capacity is reached, and inserts one ring-buffer row per accepted key.
C20_IndexWindow ==
    /\ [](/\ Len(interactions.order) <= INTERACTION_SEEN_MAX
          /\ KeysOf(interactions.order) = interactions.seen
          /\ Cardinality(interactions.seen) = Len(interactions.order))
    /\ [][interactions' # interactions => IndexStep(interactions, interactions')]_vars

\* Follow has handled "user: go" and "user: hi" twice on a full index whose
\* oldest key was the one of "user: hi": both keys were accepted once, the
\* two oldest keys left, and the repeated event added nothing.
C20_Witness ==
    /\ bus_appends = MaxBusAppends + MaxBusRepeats
    /\ tail.pc = "follow_read" /\ tail.pos = Len(bus)
    /\ bus[Len(bus)] = EventLine(EvTalkAgain)
    /\ bus[Len(bus) - 1] = EventLine(EvTalkAgain)
    /\ Len(interactions.order) = INTERACTION_SEEN_MAX
    /\ interactions.order[1] = PastKey(3)
    /\ LastN(interactions.order, 2) = <<KeyUserGo, KeyUserHi>>
    /\ interactions.ua[1].text = <<"h","i">>
    /\ interactions.ua[2].text = <<"g","o">>
    /\ interactions.ua[3] = PastRow(INTERACTION_SEEN_MAX)

\* ------------------------------------------------ rejected and accepted lines
EvAnnouncement ==
    ("agent" :> VStr(NameMercurio)) @@ ("type" :> Txt("announcement"))
    @@ ("status" :> Txt("Active")) @@ ("recent_messages" :> VList(<<MsgUserHi>>))
\* A record that names its emitter under `source` only.
EvSourceOnly ==
    ("source" :> VStr(NameVenus)) @@ ("status" :> Txt("Active"))
    @@ ("recent_messages" :> VList(<<MsgUserHi>>))

SkipLines ==
    {EventLine(EvSystem), EventLine(EvAnnouncement), EventLine(EvNoEmitter), NonMapLine,
     EventLine(EvSourceOnly), EventLine(EvScenarioA)}

InitSkip ==
    InitIn({"legacy"}, {<<l>> : l \in SkipLines}, NoSideLogs, NoTranscripts, {"c1"})

NextSkip ==
    \/ Starter("c1", {"request"})
    \/ Tailer
    \/ EmitterAppend(SkipLines)

SpecSkip == InitSkip /\ [][NextSkip]_vars

\* A parsed record of one of the rejected kinds.
RejectedRecord(val) ==
    \/ val.t # "map"
    \/ /\ val.t = "map"
       /\ \/ ("from" \in DOMAIN val.v /\ val.v["from"] = Txt("system"))
          \/ ("type" \in DOMAIN val.v /\ val.v["type"] = Txt("announcement"))
          \/ DOMAIN val.v \cap {"agent", "source"} = {}

\* The tailer steps over the line at its position, in Bootstrap or in Follow.
TailReads == tail.pc \in {"boot_read", "follow_read"} /\ tail'.pos = tail.pos + 1

\* C28: should_skip_event rejects exactly the records that are not maps, are
\* tagged from=system or type=announcement, or carry neither an agent nor a
\* source key; a rejected line read in Bootstrap or in Follow leaves the
\* agent map, the interaction buffers and the side logs as they were, emits
\* nothing and queues nothing, and every other record is taken up.
C28_RejectedLeavesState ==
    [][(TailReads /\ bus[tail.pos + 1].j = "json") =>
          LET val == bus[tail.pos + 1].val
          IN  /\ should_skip_event(val) <=> RejectedRecord(val)
              /\ RejectedRecord(val) =>
                    /\ agent_state' = agent_state
                    /\ interactions' = interactions
                    /\ history_files' = history_files
                    /\ emitted' = emitted
                    /\ tail' = [tail EXCEPT !.pos = @ + 1]
              /\ ~RejectedRecord(val) =>
                    IF tail.pc = "boot_read"
                    THEN Len(tail'.initial_events) = Len(tail.initial_events) + 1
                    ELSE tail'.pc = "follow_lock"]_vars

\* Follow has stepped over an announcement that names a stored agent: the
\* store, the buffers and the notifications are those Bootstrap left.
C28_Witness ==
    /\ tail.pc = "follow_read" /\ tail.pos = 2 /\ Len(bus) = 2
    /\ bus = <<EventLine(EvScenarioA), EventLine(EvAnnouncement)>>
    /\ Len(agent_state) = 1
    /\ interactions = InteractionsInit
    /\ Len(emitted) = 1 /\ emitted[1].event = "init"

\* The accepted lines among the first n lines of the log.
RECURSIVE AcceptedLines(_, _)
AcceptedLines(log, n) ==
    IF n = 0 THEN 0
    ELSE AcceptedLines(log, n - 1)
         + (IF log[n].j = "json" /\ ~should_skip_event(log[n].val) THEN 1 ELSE 0)

\* The update notifications sent so far; in a legacy process Follow sends
\* one per line it applies, and nothing else sends any.
RECURSIVE UpdatesSent(_, _)
UpdatesSent(log, n) ==
    IF n = 0 THEN 0
    ELSE UpdatesSent(log, n - 1) + (IF log[n].event = "update" THEN 1 ELSE 0)

\* C30: every accepted line of the event log is applied exactly once, by
\* Bootstrap or by Follow: when the tailer waits at the end of the log, the
\* lines Bootstrap took up and the lines Follow applied are together as many
\* as the accepted lines of the log.
C30_AppliedExactlyOnce ==
    (tail.pc = "follow_read" /\ tail.pos = Len(bus)) =>
        AcceptedLines(bus, Len(bus))
            = Len(tail.initial_events) + UpdatesSent(emitted, Len(emitted))

\* C29: normalizing an accepted event gives the same output at any two
\* moments, last_seen included, and every optional field the event does not
\* carry is None in the output.
C29_NormalizeDeterministic ==
    (tail.pc = "follow_lock") =>
        /\ \A t \in 0..clock : normalize_event(tail.event, t) = tail.normalized
        /\ \A k \in {"cron_jobs", "active_missions", "cpu", "mem", "recent_messages",
                     "recent_thoughts", "current_thought"} :
              k \notin DOMAIN tail.event => tail.normalized[k] = NoneV

\* ============================================================== drilldown
\* Times are counted in milliseconds from the epoch; the code's float seconds
\* 0.25, 0.6, ... are the whole numbers 250, 600, ... here.
\*
\* Timestamp texts are written by kind and second: IsoZ(n) is the ISO text
\* with a trailing Z of the n-th second of the epoch (negative n: before
\* 1970), LocalText(n) the text '%Y-%m-%d %H:%M:%S' of that second, and
\* NumText(n) the decimal text of n.
IsoZ(n) == VStr(<<"iso", ToString(n)>>)
LocalText(n) == VStr(<<"local", ToString(n)>>)
NumText(n) == VStr(<<"num", ToString(n)>>)

\* parse_any_ts.normalize_epoch for a number of seconds (epochs given in
\* milliseconds or finer, above 1e12, lie outside the numbers used here)
normalize_epoch(num) == IF num <= 0 THEN 0 ELSE num * 1000

\* The second a timestamp text names.
SecondOf(piece) ==
    CHOOSE n \in (0 - MaxEpochSec)..MaxEpochSec : ToString(n) = piece

\* src/app.py parse_any_ts: numbers and decimal texts are normalized epochs,
\* ISO texts resolve to their instant, anything else to 0.
parse_any_ts(value) ==
    IF value.t = "int" THEN normalize_epoch(value.v)
    ELSE IF value.t # "str" THEN 0
    ELSE IF StrStrip(value.v) = <<>> THEN 0
    ELSE IF Len(value.v) = 2 /\ value.v[1] = "num"
    THEN normalize_epoch(SecondOf(value.v[2]))
    ELSE IF Len(value.v) = 2 /\ value.v[1] \in {"iso", "local"}
    THEN SecondOf(value.v[2]) * 1000
    ELSE IF Len(value.v) = 2 /\ value.v[1] = "now"
    THEN NowMs(SecondOf(value.v[2]))
    ELSE 0

\* src/app.py fmt_ts_ms: the local time text of the second an epoch in
\* milliseconds falls in, '' for no number or a non-positive one
fmt_ts_ms(ms) ==
    IF ms.t # "int" \/ ms.v <= 0 THEN EmptyStr ELSE LocalText(ms.v \div 1000)

TIMELINE_HISTORY_TAIL == 120
TIMELINE_RECENT_TAIL == 8
TIMELINE_RUNS_TAIL == 6
TIMELINE_TEXT_MAX == 500

TypeMessage == <<"m","e","s","s","a","g","e">>
TypeThought == <<"t","h","o","u","g","h","t">>
TypeRecent == <<"r","e","c","e","n","t","_">>
TypeRecentThought == <<"r","e","c","e","n","t","_","t","h","o","u","g","h","t">>
TypeCronLastRun == <<"c","r","o","n","_","l","a","s","t","_","r","u","n">>
TypeCron == <<"c","r","o","n","_">>
TypeInteraction == <<"_","i","n","t","e","r","a","c","t","i","o","n">>
CharsCron == <<"c","r","o","n">>
CharsRun == <<"r","u","n">>

\* One timeline entry.
TimelineRow(ts, source, type, text) ==
    [ts |-> ts, source |-> source, type |-> type, text |-> text]

\* str(x) of a text value or None-like value
StrOf(x) == IF x.t = "str" THEN x.v ELSE <<>>

\* build_agent_timeline: the entries of one history, of its last 120 rows
HistoryRows(history, type) ==
    LET rows == LastN(history, TIMELINE_HISTORY_TAIL)
    IN  [i \in 1..Len(rows) |->
            TimelineRow(PyOr(rows[i].ts, EmptyStr), "session", type,
                        FirstN(rows[i].text, TIMELINE_TEXT_MAX))]

\* build_agent_timeline: the entries of the last 8 recent messages
RecentMessageRows(snapshot) ==
    LET texts == LastN(IterItems(PyOr(Get(snapshot, "recent_messages"), VList(<<>>))),
                       TIMELINE_RECENT_TAIL)
    IN  [i \in 1..Len(texts) |->
            TimelineRow(GetD(snapshot, "last_seen", EmptyStr), "realtime",
                        TypeRecent \o parse_message_actor(texts[i]).actor,
                        FirstN(parse_message_actor(texts[i]).text, TIMELINE_TEXT_MAX))]

\* build_agent_timeline: the entries of the last 8 recent thoughts
RecentThoughtRows(snapshot) ==
    LET texts == LastN(IterItems(PyOr(Get(snapshot, "recent_thoughts"), VList(<<>>))),
                       TIMELINE_RECENT_TAIL)
    IN  [i \in 1..Len(texts) |->
            TimelineRow(GetD(snapshot, "last_seen", EmptyStr), "realtime",
                        TypeRecentThought, FirstN(texts[i], TIMELINE_TEXT_MAX))]

\* build_agent_timeline: the entries of the last 6 runs of one job
RunRows(job) ==
    LET runs == LastN(PyOr(Get(job, "recent_runs"), VList(<<>>)).v, TIMELINE_RUNS_TAIL)
    IN  [i \in 1..Len(runs) |->
            TimelineRow(fmt_ts_ms(Get(runs[i], "ts")), "cron-run",
                        TypeCron \o StrOf(GetD(runs[i], "action", VStr(CharsRun)))
                            \o <<"_">> \o StrOf(GetD(runs[i], "status", VStr(UNKNOWN_NAME))),
                        FirstN(StrOf(PyOr(Get(runs[i], "summary"), EmptyStr)),
                               TIMELINE_TEXT_MAX))]

\* build_agent_timeline: the entries of the snapshot's jobs, each job's last
\* run followed by its recent runs
RECURSIVE CronRows(_)
CronRows(jobs) ==
    IF jobs = <<>> THEN <<>>
    ELSE LET job == Head(jobs).v
             name == StrOf(GetD(job, "name", VStr(CharsCron)))
             summary == StrOf(PyOr(Get(job, "summary"), EmptyStr))
         IN  <<TimelineRow(PyOr(Get(job, "last_run_at"), EmptyStr), "cron",
                           TypeCronLastRun,
                           FirstN(name \o <<":", " ">> \o summary, TIMELINE_TEXT_MAX))>>
             \o RunRows(job) \o CronRows(Tail(jobs))

\* build_agent_timeline: the entries of the rows of recent_user_agent that
\* belong to the agent, newest first as the ring holds them
InteractionRows(ring, agent) ==
    LET mine == SelectSeq(ring, LAMBDA row :
                    normalize_agent_name(row.agent) = normalize_agent_name(agent))
    IN  [i \in 1..Len(mine) |->
            TimelineRow(mine[i].ts, "interaction",
                        mine[i].actor \o TypeInteraction,
                        FirstN(mine[i].text, TIMELINE_TEXT_MAX))]

\* build_agent_timeline: the key an entry is deduplicated by
TimelineKey(item) ==
    <<item.source, StrLower(StrStrip(item.type)), StrLower(StrStrip(item.text))>>

\* build_agent_timeline: the first entry of every key, in order
Deduped(timeline) ==
    LET keys == [i \in 1..Len(timeline) |-> TimelineKey(timeline[i])]
        first == {i \in 1..Len(timeline) : \A j \in 1..(i - 1) : keys[j] # keys[i]}
        before == [k \in 1..Len(timeline) |-> Cardinality({j \in first : j < k})]
    IN  [i \in 1..Cardinality(first) |->
            timeline[CHOOSE k \in first : before[k] = i - 1]]

\* list.sort(key=..., reverse=True): by descending key, entries of equal key
\* in their order (the sort is stable)
SortedDescending(items, key) ==
    LET ahead == [k \in 1..Len(items) |->
                     Cardinality({j \in 1..Len(items) :
                                     \/ key[j] > key[k]
                                     \/ (key[j] = key[k] /\ j < k)})]
    IN  [i \in 1..Len(items) |-> items[CHOOSE k \in 1..Len(items) : ahead[k] = i - 1]]

\* build_agent_timeline: the entries as the loops append them
TimelineEntries(snapshot, ring) ==
    HistoryRows(PyOr(Get(snapshot, "message_history"), VList(<<>>)).v, TypeMessage)
    \o HistoryRows(PyOr(Get(snapshot, "thought_history"), VList(<<>>)).v, TypeThought)
    \o RecentMessageRows(snapshot)
    \o RecentThoughtRows(snapshot)
    \o CronRows(PyOr(Get(snapshot, "cron_details"), VList(<<>>)).v)
    \o InteractionRows(ring, GetD(snapshot, "agent", VStr(UNKNOWN_NAME)))

\* timeline.sort(key=lambda item: parse_any_ts(item.get('ts')), reverse=True)
SortedByTime(timeline) ==
    SortedDescending(timeline, [i \in 1..Len(timeline) |-> parse_any_ts(timeline[i].ts)])

\* src/app.py build_agent_timeline, reading the ring recent_user_agent
build_agent_timeline(snapshot, ring) ==
    SortedByTime(Deduped(TimelineEntries(snapshot, ring)))

\* ------------------------------------------------------- calls of a function
\* A caller about to apply the function `name` to the arguments args.
CallOf(name, args) == [CallerInit EXCEPT !.kind = name, !.args = args]

\* The process before any thread started, with one such caller per argument
\* choice, and the interaction state drawn from indexes.
InitCalls(name, argsets, indexes) ==
    InitWith({"legacy"}, {<<>>}, NoSideLogs, NoTranscripts,
             {[c \in {"c1"} |-> CallOf(name, a)] : a \in argsets}, indexes)

\* The caller's function returned value.
Returns(c, name, value) ==
    /\ callers[c].pc = "idle"
    /\ callers[c].kind = name
    /\ callers' = [callers EXCEPT ![c].pc = "done", ![c].data = value]
    /\ UNCHANGED <<notCaller, bootVars, tail, poll, bridgeVars>>

\* The caller has the value of the call.
HasValue(c, name) == callers[c].kind = name /\ callers[c].pc = "done"

\* --------------------------------------------------- the timeline of a snapshot
TextHello == <<"H","e","l","l","o">>
TextHelloPadded == <<" ","h","e","l","l","o"," ">>
TextDeploy == <<"d","e","p","l","o","y"," ","g","a","t","e","w","a","y">>
TextNoTime == <<"n","o"," ","t","i","m","e">>
TextEarly == <<"e","a","r","l","y">>
TextBadTime == <<"b","a","d"," ","t","i","m","e">>
TextOld == <<"o","l","d">>
TextPlan == <<"p","l","a","n">>
TextDone == <<"d","o","n","e">>
TextBeat == <<"b","e","a","t">>
TextOk == <<"o","k">>
TextFinished == <<"f","i","n","i","s","h","e","d">>
MsgAssistantHello == <<"a","s","s","i","s","t","a","n","t",":"," ","H","e","l","l","o">>

TimelineMessages ==
    {<<>>,
     <<HistEntry("message", IsoZ(60), TextHello),
       HistEntry("message", IsoZ(90), TextHelloPadded),
       HistEntry("message", IsoZ(60), TextDeploy)>>,
     <<HistEntry("message", EmptyStr, TextNoTime),
       HistEntry("message", IsoZ(30), TextEarly),
       HistEntry("message", Txt("yesterday"), TextBadTime),
       HistEntry("message", IsoZ(60), TextDeploy)>>,
     <<HistEntry("message", IsoZ(0 - 60), TextOld),
       HistEntry("message", EmptyStr, TextNoTime)>>}
TimelineThoughts == {<<>>, <<HistEntry("thought", IsoZ(60), TextPlan)>>}
TimelineRecent == {<<>>, <<MsgUserHi, MsgAssistantHello>>}
TimelineLastSeen == {EmptyStr, IsoZ(120)}

\* One job of the snapshot's cron_details with one recorded run.
JobBeat ==
    VMap(("name" :> VStr(TextBeat)) @@ ("summary" :> VStr(TextOk))
         @@ ("last_run_at" :> LocalText(45))
         @@ ("recent_runs" :>
                VList(<<("ts" :> VInt(45500)) @@ ("action" :> VStr(TextFinished))
                        @@ ("status" :> VStr(TextOk)) @@ ("summary" :> VStr(TextDone))>>)))
TimelineJobs == {<<>>, <<JobBeat>>}

\* The user ring after a message to Mercurio and one to Venus.
RingTwo ==
    <<[ts |-> IsoZ(100), agent |-> VStr(NameVenus), actor |-> CharsUser,
       text |-> <<"h","i">>, mentions |-> <<>>],
      [ts |-> IsoZ(60), agent |-> VStr(NameMercurio), actor |-> CharsUser,
       text |-> <<"h","i">>, mentions |-> <<>>]>>
TimelineRings == {InteractionsInit, [InteractionsInit EXCEPT !.ua = RingTwo]}

TimelineSnapshot(mh, th, rm, ls, jobs) ==
    ("agent" :> VStr(NameMercurio)) @@ ("status" :> Txt("Active"))
    @@ ("last_seen" :> ls) @@ ("message_history" :> VList(mh))
    @@ ("thought_history" :> VList(th)) @@ ("recent_messages" :> VList(rm))
    @@ ("recent_thoughts" :> VList(<<>>)) @@ ("cron_details" :> VList(jobs))

TimelineArgs ==
    {[snapshot |-> TimelineSnapshot(mh, th, rm, ls, jobs)] :
        mh \in TimelineMessages, th \in TimelineThoughts, rm \in TimelineRecent,
        ls \in TimelineLastSeen, jobs \in TimelineJobs}

InitTimeline == InitCalls("build_agent_timeline", TimelineArgs, TimelineRings)

NextTimeline ==
    Returns("c1", "build_agent_timeline",
            build_agent_timeline(callers["c1"].args.snapshot, interactions.ua))

SpecTimeline == InitTimeline /\ [][NextTimeline]_vars

\* The place of an entry's key among the first occurrences of the keys of
\* the appended entries.
PlaceOf(item, entries) ==
    LET keys == [i \in 1..Len(entries) |-> TimelineKey(entries[i])]
    IN  CHOOSE i \in 1..Len(entries) :
            /\ keys[i] = TimelineKey(item)
            /\ \A j \in 1..(i - 1) : keys[j] # keys[i]

\* C26: the timeline of a snapshot holds every (source, type, text) triple
\* of the appended entries once, trimmed and in lower case, with the entry
\* that came first; it is ordered by non-increasing resolved time, entries
\* that resolve to zero come last, and entries of equal resolved time stand
\* in the order in which they were appended.
C26_TimelineDedupedSorted ==
    HasValue("c1", "build_agent_timeline") =>
        LET timeline == callers["c1"].data
            entries == TimelineEntries(callers["c1"].args.snapshot, interactions.ua)
            at(i) == parse_any_ts(timeline[i].ts)
        IN  /\ \A i, j \in 1..Len(timeline) :
                  i # j => TimelineKey(timeline[i]) # TimelineKey(timeline[j])
            /\ {TimelineKey(timeline[i]) : i \in 1..Len(timeline)}
                  = {TimelineKey(entries[i]) : i \in 1..Len(entries)}
            /\ \A i \in 1..Len(timeline) :
                  timeline[i] = entries[PlaceOf(timeline[i], entries)]
            /\ \A i, j \in 1..Len(timeline) :
                  i < j => /\ at(i) >= at(j)
                           /\ at(i) = 0 => at(j) = 0
                           /\ at(i) = at(j) =>
                                 PlaceOf(timeline[i], entries) < PlaceOf(timeline[j], entries)

\* ------------------------------------------------------- decision inference
TOKEN_MIN_LEN == 4
DECISION_SCAN_MAX == 220
DECISION_MAX == 25
EVIDENCE_WINDOW == 9
EVIDENCE_TEXT_MAX == 260
DECISION_TEXT_MAX == 320
DECISION_ANCHORS_MAX == 3

\* `sub in s`
Contains(s, sub) ==
    \E i \in 1..(Len(s) - Len(sub) + 1) : SubSeq(s, i, i + Len(sub) - 1) = sub

\* [a-zA-Z0-9_-], the characters of a token (the accented vowels of the
\* pattern do not occur in the texts used here)
IsTokenChar(c) == IsWordChar(LowerChar(c)) \/ c = "-"

\* src/app.py tokenize_text: re.findall(r'[...]{4,}', text.lower()), the
\* maximal runs of at least 4 token characters
tokenize_text(text) ==
    LET low == StrLower(text)
        inside(i) == i >= 1 /\ i <= Len(low) /\ IsTokenChar(low[i])
    IN  {SubSeq(low, i, j) : <<i, j>> \in
            {p \in (1..Len(low)) \X (1..Len(low)) :
                /\ p[2] - p[1] + 1 >= TOKEN_MIN_LEN
                /\ \A k \in p[1]..p[2] : inside(k)
                /\ ~inside(p[1] - 1)
                /\ ~inside(p[2] + 1)}}

\* best_anchor_matches that keeps anchors without a common token
AnchorsUnfiltered(anchors, reference_text, max_items) == FirstN(anchors, max_items)

\* src/app.py best_anchor_matches: the anchors that share a token with the
\* reference text, by descending overlap, at most max_items
best_anchor_matches(anchors, reference_text, max_items) ==
    LET ref_tokens == tokenize_text(reference_text)
        overlap == [i \in 1..Len(anchors) |->
                       Cardinality(tokenize_text(anchors[i]) \cap ref_tokens)]
        hits == {i \in 1..Len(anchors) : overlap[i] > 0}
        place == [i \in 1..Len(anchors) |-> Cardinality({j \in hits : j < i})]
        scored == [k \in 1..Cardinality(hits) |->
                      CHOOSE i \in hits : place[i] = k - 1]
        sorted == SortedDescending(scored, [k \in 1..Len(scored) |-> overlap[scored[k]]])
    IN  FirstN([k \in 1..Len(sorted) |-> anchors[sorted[k]]], max_items)

TypeRecentAssistant == <<"r","e","c","e","n","t","_","a","s","s","i","s","t","a","n","t">>
TypeRecentUser == <<"r","e","c","e","n","t","_","u","s","e","r">>
TypeUserInteraction == <<"u","s","e","r","_","i","n","t","e","r","a","c","t","i","o","n">>
TypeAssistantInteraction == <<"a","s","s","i","s","t","a","n","t","_","i","n","t","e","r","a","c","t","i","o","n">>
TypeCronFinishedOk == <<"c","r","o","n","_","f","i","n","i","s","h","e","d","_","o","k">>

REASON_USER == "Recent user request"
REASON_CRON == "Triggered by cron execution"
REASON_THOUGHT == "Recent reasoning chain"
REASON_CONTEXT == "Continuous operational context"
REASON_ROOTS == "Constraints/goals derived from workspace documents (SOUL/OPERATIONS/...)"

\* infer_decision_trace: the entry may be a decision
DecisionCandidate(row) ==
    LET entry_type == StrLower(row.type)
    IN  /\ StrStrip(row.text) # <<>>
        /\ \/ StartsWith(entry_type, TypeRecentAssistant)
           \/ entry_type = TypeMessage
           \/ entry_type \in {TypeUserInteraction, TypeAssistantInteraction}
           \/ Contains(entry_type, TypeCronFinishedOk)
           \/ Contains(entry_type, TypeCronLastRun)

\* infer_decision_trace: the reason an older entry gives, "" for none
ReasonOf(prev) ==
    LET prev_type == StrLower(prev.type)
    IN  IF StrStrip(prev.text) = <<>> THEN ""
        ELSE IF Contains(prev_type, TypeRecentUser)
                \/ Contains(prev_type, TypeUserInteraction) THEN REASON_USER
        ELSE IF Contains(prev_type, TypeCron) THEN REASON_CRON
        ELSE IF Contains(prev_type, TypeThought) THEN REASON_THOUGHT
        ELSE ""

\* infer_decision_trace: the first of the 9 entries after idx that gives a
\* reason, 0 for none
EvidenceAt(working, idx) ==
    LET window == {j \in (idx + 1)..(idx + EVIDENCE_WINDOW) :
                      j <= Len(working) /\ ReasonOf(working[j]) # ""}
    IN  IF window = {} THEN 0 ELSE SetMin(window)

\* infer_decision_trace: the roots with an anchor that shares a token with
\* the text, each with its best 3 such anchors
RECURSIVE RootCauses(_, _)
RootCauses(context_roots, text) ==
    IF context_roots = <<>> THEN <<>>
    ELSE LET root == Head(context_roots)
             matches == best_anchor_matches(root.anchors, text, DECISION_ANCHORS_MAX)
         IN  (IF matches # <<>> THEN <<[file |-> root.file, anchors |-> matches]>>
              ELSE <<>>)
             \o RootCauses(Tail(context_roots), text)

\* infer_decision_trace: the decision record of entry idx
DecisionAt(agent_name, working, idx, context_roots) ==
    LET row == working[idx]
        text == StrStrip(row.text)
        found == EvidenceAt(working, idx)
        root_causes == RootCauses(context_roots, text)
    IN  [ts |-> row.ts,
         agent |-> StrCapitalize(agent_name),
         decision |-> FirstN(text, DECISION_TEXT_MAX),
         why |-> (IF found = 0 THEN <<REASON_CONTEXT>> ELSE <<ReasonOf(working[found])>>)
                 \o (IF root_causes # <<>> THEN <<REASON_ROOTS>> ELSE <<>>),
         evidence |-> IF found = 0 THEN <<>>
                      ELSE <<FirstN(StrStrip(working[found].text), EVIDENCE_TEXT_MAX)>>,
         confidence |-> IF found = 0 THEN "medium" ELSE "high",
         source |-> row.source,
         type |-> row.type,
         root_causes |-> root_causes]

\* infer_decision_trace scanning the whole timeline
InferFromAll(agent_name, timeline, context_roots) ==
    LET candidates == {i \in 1..Len(timeline) : DecisionCandidate(timeline[i])}
        place == [i \in 1..Len(timeline) |-> Cardinality({j \in candidates : j < i})]
        taken == {i \in candidates : place[i] < DECISION_MAX}
    IN  [k \in 1..Cardinality(taken) |->
            DecisionAt(agent_name, timeline, CHOOSE i \in taken : place[i] = k - 1,
                       context_roots)]

\* src/app.py infer_decision_trace: the decisions of the first 220 entries,
\* in order, up to the 25th
infer_decision_trace(agent_name, timeline, context_roots) ==
    LET working == FirstN(timeline, DECISION_SCAN_MAX)
        candidates == {i \in 1..Len(working) : DecisionCandidate(working[i])}
        place == [i \in 1..Len(working) |-> Cardinality({j \in candidates : j < i})]
        taken == {i \in candidates : place[i] < DECISION_MAX}
    IN  [k \in 1..Cardinality(taken) |->
            DecisionAt(agent_name, working, CHOOSE i \in taken : place[i] = k - 1,
                       context_roots)]

\* ------------------------------------------------ decisions of a timeline
TextDecision == <<"d","e","c","i","s","i","o","n"," ">>
TextGateway == <<"a","s","s","i","s","t","a","n","t",":"," ","g","a","t","e","w","a","y"," ","a","c","t","i","v","e">>
TextCheckGateway == <<"u","s","e","r",":"," ","c","h","e","c","k"," ","g","a","t","e","w","a","y">>
TextRestart == <<"r","e","s","t","a","r","t"," ","w","o","r","k","e","r">>
AnchorDecisionLog == <<"D","e","c","i","s","i","o","n"," ","l","o","g">>
AnchorGateway == <<"K","e","e","p"," ","t","h","e"," ","g","a","t","e","w","a","y"," ","h","e","a","l","t","h","y">>
AnchorMission == <<"M","i","s","s","i","o","n">>
NameEuropaLower == <<"e","u","r","o","p","a">>

RowMessage(i) ==
    TimelineRow(IsoZ(60), "session", TypeMessage, TextDecision \o <<ToString(i)>>)
RowThought(i) == TimelineRow(IsoZ(60), "session", TypeThought, <<"t", ToString(i)>>)
RowBlank(i) == TimelineRow(IsoZ(60), "session", TypeMessage \o <<ToString(i)>>, <<" ">>)
RowAssistant == TimelineRow(IsoZ(121), "realtime", TypeRecentAssistant, TextGateway)
RowUser == TimelineRow(IsoZ(100), "interaction", TypeUserInteraction, TextCheckGateway)
RowCronRun ==
    TimelineRow(LocalText(90), "cron-run", TypeCron \o TextFinished \o <<"_">> \o TextOk,
                TextRestart)

\* n rows, those numbered in `messages` being messages and the others
\* thoughts
RowsOf(n, messages) ==
    [i \in 1..n |-> IF i \in messages THEN RowMessage(i) ELSE RowThought(i)]

LongRows == DECISION_SCAN_MAX + 10

DecisionTimelines ==
    {<<>>,
     <<RowAssistant, RowUser>>,
     <<RowAssistant, RowCronRun, RowUser>>,
     <<RowAssistant>> \o [i \in 1..EVIDENCE_WINDOW |-> RowBlank(i)] \o <<RowUser>>,
     <<RowAssistant>> \o [i \in 1..(EVIDENCE_WINDOW - 1) |-> RowBlank(i)] \o <<RowUser>>,
     RowsOf(40, 1..40),
     RowsOf(LongRows, (1..30) \cup ((DECISION_SCAN_MAX - 1)..LongRows)),
     RowsOf(LongRows, (DECISION_SCAN_MAX - 1)..LongRows),
     RowsOf(DECISION_SCAN_MAX, {DECISION_SCAN_MAX}) \o <<RowUser>>}

RootSoul == [file |-> "/w/SOUL.md", anchors |-> <<AnchorDecisionLog, AnchorGateway>>,
             matched_anchors |-> <<>>]
RootOps == [file |-> "/w/OPERATIONS.md", anchors |-> <<AnchorMission>>,
            matched_anchors |-> <<>>]
DecisionRoots == {<<>>, <<RootOps>>, <<RootSoul, RootOps>>, <<RootOps, RootSoul>>}

DecisionArgs ==
    {[agent_name |-> a, timeline |-> t, context_roots |-> r] :
        a \in {NameEuropaLower, NameLower}, t \in DecisionTimelines, r \in DecisionRoots}

InitDecisions == InitCalls("infer_decision_trace", DecisionArgs, {InteractionsInit})

NextDecisions ==
    Returns("c1", "infer_decision_trace",
            infer_decision_trace(callers["c1"].args.agent_name,
                                 callers["c1"].args.timeline,
                                 callers["c1"].args.context_roots))

SpecDecisions == InitDecisions /\ [][NextDecisions]_vars

\* The entries among the first 220 of a timeline that may be decisions, and
\* the k-th of them.
ScannedCandidates(timeline) ==
    {i \in 1..Len(timeline) : i <= DECISION_SCAN_MAX /\ DecisionCandidate(timeline[i])}
CandidateNo(timeline, k) ==
    CHOOSE i \in ScannedCandidates(timeline) :
        Cardinality({j \in ScannedCandidates(timeline) : j < i}) = k - 1

\* C24: infer_decision_trace returns at most 25 decisions: those of the
\* first 25 entries, in timeline order, that may be decisions among the
\* first 220 entries, and none of a later entry.
C24_AtMost25FromFirst220 ==
    HasValue("c1", "infer_decision_trace") =>
        LET decisions == callers["c1"].data
            timeline == callers["c1"].args.timeline
            found == Cardinality(ScannedCandidates(timeline))
        IN  /\ Len(decisions) <= DECISION_MAX
            /\ Len(decisions) = IF found < DECISION_MAX THEN found ELSE DECISION_MAX
            /\ \A k \in 1..Len(decisions) :
                  LET row == timeline[CandidateNo(timeline, k)]
                  IN  /\ decisions[k].decision = FirstN(StrStrip(row.text), DECISION_TEXT_MAX)
                      /\ decisions[k].ts = row.ts
                      /\ decisions[k].type = row.type
                      /\ decisions[k].source = row.source

\* A timeline of 230 entries with 30 possible decisions at its head and more
\* beyond entry 220 gave the 25 decisions of its first 25 entries.
C24_Witness ==
    /\ HasValue("c1", "infer_decision_trace")
    /\ Len(callers["c1"].args.timeline) = LongRows
    /\ DecisionCandidate(callers["c1"].args.timeline[LongRows])
    /\ Len(callers["c1"].data) = DECISION_MAX
    /\ callers["c1"].data[DECISION_MAX].decision = TextDecision \o <<ToString(DECISION_MAX)>>

\* An anchor and a text have a token in common.
SharesToken(anchor, text) == tokenize_text(anchor) \cap tokenize_text(text) # {}

\* The files of the roots that have an anchor sharing a token with the text.
RECURSIVE MatchingFiles(_, _)
MatchingFiles(context_roots, text) ==
    IF context_roots = <<>> THEN <<>>
    ELSE (IF \E i \in 1..Len(Head(context_roots).anchors) :
                 SharesToken(Head(context_roots).anchors[i], text)
          THEN <<Head(context_roots).file>> ELSE <<>>)
         \o MatchingFiles(Tail(context_roots), text)

\* An entry that counts as evidence: non-empty text and a type that names a
\* user request, a cron event or a thought.
GivesEvidence(row) ==
    /\ StrStrip(row.text) # <<>>
    /\ \/ Contains(StrLower(row.type), TypeRecentUser)
       \/ Contains(StrLower(row.type), TypeUserInteraction)
       \/ Contains(StrLower(row.type), TypeCron)
       \/ Contains(StrLower(row.type), TypeThought)

\* C25: a decision carries the workspace-documents reason only when a
\* context root has an anchor that shares a token with the decision's text,
\* and root_causes lists exactly the roots with such an anchor; every
\* decision has a reason; its confidence is high exactly when one of the
\* next 9 scanned entries gives evidence, else medium.
C25_ReasonsAndConfidence ==
    HasValue("c1", "infer_decision_trace") =>
        LET decisions == callers["c1"].data
            timeline == callers["c1"].args.timeline
            roots == callers["c1"].args.context_roots
        IN  \A k \in 1..Len(decisions) :
               LET idx == CandidateNo(timeline, k)
                   text == StrStrip(timeline[idx].text)
                   d == decisions[k]
                   files == MatchingFiles(roots, text)
                   evidence == \E j \in (idx + 1)..(idx + EVIDENCE_WINDOW) :
                                  /\ j <= Len(timeline) /\ j <= DECISION_SCAN_MAX
                                  /\ GivesEvidence(timeline[j])
               IN  /\ (\E i \in 1..Len(d.why) : d.why[i] = REASON_ROOTS) => files # <<>>
                   /\ [i \in 1..Len(d.root_causes) |-> d.root_causes[i].file] = files
                   /\ \A i \in 1..Len(d.root_causes) :
                         /\ d.root_causes[i].anchors # <<>>
                         /\ \A a \in 1..Len(d.root_causes[i].anchors) :
                               SharesToken(d.root_causes[i].anchors[a], text)
                   /\ Len(d.why) >= 1
                   /\ d.confidence = (IF evidence THEN "high" ELSE "medium")
                   /\ evidence <=> d.evidence # <<>>

\* The assistant's gateway message, followed after a cron run by the user's
\* request, became a high-confidence decision rooted in the one document
\* of two that speaks of the gateway.
C25_Witness ==
    /\ HasValue("c1", "infer_decision_trace")
    /\ callers["c1"].args.timeline = <<RowAssistant, RowCronRun, RowUser>>
    /\ callers["c1"].args.context_roots = <<RootOps, RootSoul>>
    /\ callers["c1"].data[1].confidence = "high"
    /\ callers["c1"].data[1].why = <<REASON_CRON, REASON_ROOTS>>
    /\ callers["c1"].data[1].root_causes
          = <<[file |-> "/w/SOUL.md", anchors |-> <<AnchorGateway>>]>>

\* ------------------------------------------------------------ causal graph
\* Weights are whole numbers of millionths (0.1 is 100000, 1.9 is 1900000),
\* times whole milliseconds. A node carries its id, group, weight and the
\* fields of meta that later steps read (ts, the index of its decision or
\* action, the liveness marks); labels and the display-only fields of meta
\* are not carried. An id is the sequence of the pieces it is formatted
\* from.
WEIGHT_MIN == 100000
WEIGHT_MAX == 1900000
GRAPH_MAX_ACTIVATIONS == 5
GRAPH_ACTIVATIONS_CEILING == 24
GRAPH_ROOTS_MAX == 6
GRAPH_DECISIONS_MAX == 12
GRAPH_ACTIONS_MAX == 14
LIVE_TAIL_MS == 5000
MAX_LIVE_FROM_START_MS == 5000

KindFinished == <<"f","i","n","i","s","h","e","d">>
KindNextRun == <<"n","e","x","t","_","r","u","n">>
KindStarted == <<"s","t","a","r","t","e","d">>
KindRun == <<"r","u","n">>
StatusOk == <<"o","k">>
StatusSuccess == <<"s","u","c","c","e","s","s">>
StatusScheduled == <<"s","c","h","e","d","u","l","e","d">>

Min2(a, b) == IF a <= b THEN a ELSE b
Max2(a, b) == IF a >= b THEN a ELSE b

\* The rows of the lists of a sequence, one list after the other.
RECURSIVE JoinAll(_)
JoinAll(lists) == IF lists = <<>> THEN <<>> ELSE Head(lists) \o JoinAll(Tail(lists))

\* The items whose key no earlier item has, in order.
FirstOfKey(items, keys) ==
    LET first == {i \in 1..Len(items) : \A j \in 1..(i - 1) : keys[j] # keys[i]}
        before == [k \in 1..Len(items) |-> Cardinality({j \in first : j < k})]
    IN  [i \in 1..Cardinality(first) |-> items[CHOOSE k \in first : before[k] = i - 1]]

\* clamp_weight without the upper limit
ClampWeightNoCeiling(value) == IF value < WEIGHT_MIN THEN WEIGHT_MIN ELSE value

\* build_causal_graph.clamp_weight
clamp_weight(value) ==
    IF value < WEIGHT_MIN THEN WEIGHT_MIN
    ELSE IF value > WEIGHT_MAX THEN WEIGHT_MAX
    ELSE value

\* build_causal_graph.confidence_weight.get(confidence, 0.44), for confidence
\* texts in lower case without padding
confidence_weight(confidence) ==
    CASE confidence = "high" -> 680000
      [] confidence = "medium" -> 480000
      [] confidence = "low" -> 340000
      [] OTHER -> 440000

\* build_causal_graph.add_node: the node appended
add_node(node_id, group, ts, index, weight) ==
    [id |-> node_id, group |-> group, ts |-> ts, index |-> index,
     weight |-> clamp_weight(weight), live |-> FALSE, trigger_source |-> FALSE,
     live_started_at |-> 0, live_expires_at |-> 0, activity_duration |-> 0]

\* build_causal_graph.add_edge: the edge appended
add_edge(source, target, label, weight) ==
    [source |-> source, target |-> target, label |-> label,
     weight |-> clamp_weight(weight), live |-> FALSE]

AgentNodeId(snapshot) ==
    <<"agent:">> \o normalize_agent_name(GetD(snapshot, "agent", Txt("Agent")))
RootNodeId(idx) == <<"root:", ToString(idx)>>
ActivationNodeId(idx) == <<"activation:", ToString(idx)>>
DecisionNodeId(idx) == <<"decision:", ToString(idx)>>
ReasonNodeId(idx, why_idx) == <<"reason:", ToString(idx), ":", ToString(why_idx)>>
SignalNodeId(idx) == <<"signal:", ToString(idx)>>
ActionNodeId(abs_idx) == <<"action:", ToString(abs_idx)>>
OutcomeNodeId(abs_idx) == <<"outcome:", ToString(abs_idx)>>

\* build_causal_graph: the node of each of the first 6 context roots
RootWeight(root) == clamp_weight(560000 + Min2(Len(root.matched_anchors), 4) * 100000)
RootNodes(context_roots) ==
    [i \in 1..Min2(Len(context_roots), GRAPH_ROOTS_MAX) |->
        add_node(RootNodeId(i - 1), "root", NoneV, i - 1, RootWeight(context_roots[i]))]
RootEdges(context_roots, agent_node) ==
    [i \in 1..Min2(Len(context_roots), GRAPH_ROOTS_MAX) |->
        add_edge(RootNodeId(i - 1), agent_node, "context", 620000)]

\* build_causal_graph.root_nodes.get(file): the index of the last of the
\* first 6 roots with that file, -1 when there is none
RootIndexOf(context_roots, file) ==
    LET mine == {i \in 1..Min2(Len(context_roots), GRAPH_ROOTS_MAX) :
                    context_roots[i].file = file}
    IN  IF mine = {} \/ file = "" THEN 0 - 1 ELSE SetMax(mine) - 1

\* build_causal_graph.effective_max_activations
effective_max_activations(max_activations) ==
    IF max_activations.t = "int"
    THEN Max2(1, Min2(max_activations.v, GRAPH_ACTIVATIONS_CEILING))
    ELSE GRAPH_MAX_ACTIVATIONS

\* build_causal_graph: the kind of activation a timeline entry is, "" for
\* none
ActivationKind(row) ==
    IF \/ Contains(StrLower(row.type), TypeUserInteraction)
       \/ StartsWith(StrLower(row.type), TypeRecentUser)
    THEN "user_request"
    ELSE IF Contains(StrLower(row.type), TypeAssistantInteraction) THEN "agent_request"
    ELSE IF StartsWith(StrLower(row.type), TypeCron) \/ row.source \in {"cron-run", "cron"}
    THEN "cron_trigger"
    ELSE IF StrLower(row.type) = TypeMessage /\ row.source \in {"session", "interaction"}
    THEN "conversation"
    ELSE ""

\* build_causal_graph.activation_candidates, in timeline order
ActivationCandidates(timeline) ==
    LET rows == SelectSeq([i \in 1..Len(timeline) |->
                              [ts |-> parse_any_ts(timeline[i].ts),
                               text |-> StrStrip(timeline[i].text),
                               kind |-> ActivationKind(timeline[i]),
                               index |-> i - 1]],
                          LAMBDA item : item.ts > 0 /\ item.text # <<>> /\ item.kind # "")
    IN  rows

\* build_causal_graph.activation_nodes: the candidates newest first, one
\* per (kind, text in lower case), up to the cap
NewestFirst(candidates) ==
    SortedDescending(candidates, [i \in 1..Len(candidates) |-> candidates[i].ts])
OnePerKey(sorted) ==
    FirstOfKey(sorted, [i \in 1..Len(sorted) |-> <<sorted[i].kind, StrLower(sorted[i].text)>>])
ActivationItems(timeline, cap) ==
    FirstN(OnePerKey(NewestFirst(ActivationCandidates(timeline))), cap)

ActivationWeight(idx) == clamp_weight(540000 + Max2(0, 180000 - idx * 20000))
ActivationNodes(items) ==
    [i \in 1..Len(items) |->
        add_node(ActivationNodeId(i - 1), "activation", VInt(items[i].ts), i - 1,
                 ActivationWeight(i - 1))]
ActivationEdges(items, agent_node) ==
    [i \in 1..Len(items) |->
        add_edge(ActivationNodeId(i - 1), agent_node, "activates", ActivationWeight(i - 1))]

\* build_causal_graph: the weight of decision idx
DecisionWeight(decision, idx) ==
    clamp_weight(
        confidence_weight(decision.confidence)
        + Min2(Cardinality({i \in 1..Len(decision.evidence) :
                               StrStrip(decision.evidence[i]) # <<>>}), 4) * 70000
        + Min2(Len(decision.root_causes), 4) * 50000
        + Max2(0, 200000 - idx * 16000))

\* The non-empty reasons and evidence snippets of a decision.
WhyItems(decision) == SelectSeq(decision.why, LAMBDA x : x # "")
EvidenceItems(decision) ==
    SelectSeq(decision.evidence, LAMBDA x : StrStrip(x) # <<>>)

ReasonWeight(decision, idx, why_idx) ==
    clamp_weight((DecisionWeight(decision, idx) * (84 - why_idx * 8)) \div 100)
SignalWeight(decision, idx) == clamp_weight((DecisionWeight(decision, idx) * 78) \div 100)

\* build_causal_graph: the nodes added for decision idx
DecisionNodes(decision, idx) ==
    <<add_node(DecisionNodeId(idx), "decision", decision.ts, idx,
               DecisionWeight(decision, idx))>>
    \o [w \in 1..Min2(Len(WhyItems(decision)), 2) |->
           add_node(ReasonNodeId(idx, w - 1), "reason", NoneV, idx,
                    ReasonWeight(decision, idx, w - 1))]
    \o (IF EvidenceItems(decision) # <<>>
        THEN <<add_node(SignalNodeId(idx), "signal", NoneV, idx,
                        SignalWeight(decision, idx))>>
        ELSE <<>>)

\* build_causal_graph.linked_activations[:2] of a decision
LinkedActivations(activations, decision_ts) ==
    FirstN(IF decision_ts > 0
           THEN SelectSeq(activations, LAMBDA node : node.ts.v <= decision_ts)
           ELSE activations, 2)

\* build_causal_graph: the root ids that decision's first 3 root causes
\* name, in order
ConstrainingRoots(decision, context_roots) ==
    SelectSeq([i \in 1..Min2(Len(decision.root_causes), 3) |->
                  RootIndexOf(context_roots, decision.root_causes[i].file)],
              LAMBDA idx : idx >= 0)

\* build_causal_graph: the edges added for decision idx of the list
DecisionEdges(decisions, idx, activations, context_roots, agent_node) ==
    <<add_edge(agent_node, DecisionNodeId(idx), "decides",
               Max2(520000, DecisionWeight(decisions[idx + 1], idx) - 150000))>>
    \o [a \in 1..Len(LinkedActivations(activations, parse_any_ts(decisions[idx + 1].ts))) |->
           add_edge(LinkedActivations(activations, parse_any_ts(decisions[idx + 1].ts))[a].id,
                    DecisionNodeId(idx), "initiates",
                    (LinkedActivations(activations,
                                       parse_any_ts(decisions[idx + 1].ts))[a].weight
                     + DecisionWeight(decisions[idx + 1], idx)) \div 2)]
    \o (IF idx > 0
        THEN <<add_edge(DecisionNodeId(idx - 1), DecisionNodeId(idx), "evolves",
                        (DecisionWeight(decisions[idx], idx - 1)
                         + DecisionWeight(decisions[idx + 1], idx)) \div 2)>>
        ELSE <<>>)
    \o [w \in 1..Min2(Len(WhyItems(decisions[idx + 1])), 2) |->
           add_edge(ReasonNodeId(idx, w - 1), DecisionNodeId(idx), "motivates",
                    ReasonWeight(decisions[idx + 1], idx, w - 1))]
    \o (IF EvidenceItems(decisions[idx + 1]) # <<>>
        THEN <<add_edge(SignalNodeId(idx), DecisionNodeId(idx), "supports",
                        SignalWeight(decisions[idx + 1], idx))>>
        ELSE <<>>)
    \o [r \in 1..Len(ConstrainingRoots(decisions[idx + 1], context_roots)) |->
           add_edge(RootNodeId(ConstrainingRoots(decisions[idx + 1], context_roots)[r]),
                    DecisionNodeId(idx), "constrains",
                    (RootWeight(context_roots[
                         ConstrainingRoots(decisions[idx + 1], context_roots)[r] + 1])
                     + DecisionWeight(decisions[idx + 1], idx)) \div 2)]

\* build_causal_graph.decision_times: the resolved time of each of the
\* first 12 decisions
DecisionTimes(decisions) ==
    [i \in 1..Min2(Len(decisions), GRAPH_DECISIONS_MAX) |-> parse_any_ts(decisions[i].ts)]

\* build_causal_graph.eligible_actions: the indexes of the cron timeline
\* rows that are actions, in order
EligibleActions(cron_timeline) ==
    SelectSeq([i \in 1..Len(cron_timeline) |-> i - 1],
              LAMBDA abs_idx : cron_timeline[abs_idx + 1].kind
                                  \in {KindFinished, KindNextRun, KindStarted, KindRun})

StatusGood(row) ==
    StrLower(StrStrip(row.status)) \in {StatusOk, StatusSuccess, StatusScheduled}

\* build_causal_graph: the weight of the action of row abs_idx
ActionWeight(cron_timeline, abs_idx) ==
    clamp_weight(
        520000
        + (IF StatusGood(cron_timeline[abs_idx + 1]) THEN 180000 ELSE 320000)
        + Max2(0, 240000 - (Len(EligibleActions(cron_timeline)) - abs_idx - 1) * 12000))

\* build_causal_graph: the weight of the outcome of row abs_idx (status is
\* lower-cased only, not stripped, for the outcome)
OutcomeGood(row) == StrLower(row.status) \in {StatusOk, StatusSuccess, StatusScheduled}
OutcomeWeight(cron_timeline, abs_idx) ==
    clamp_weight((ActionWeight(cron_timeline, abs_idx)
                  * (IF OutcomeGood(cron_timeline[abs_idx + 1]) THEN 92 ELSE 106)) \div 100)

\* build_causal_graph.linked_decision of an action: the last listed of the
\* decisions with a positive time not after the action, else the decision
\* at the action's index, the last one at most
LinkedDecision(decision_times, action_ts, abs_idx) ==
    LET prior == {i \in 1..Len(decision_times) :
                     decision_times[i] <= action_ts /\ decision_times[i] > 0}
    IN  IF prior # {} THEN SetMax(prior) - 1
        ELSE Min2(Len(decision_times) - 1, abs_idx)

\* build_causal_graph: the edge that leads to the action of row abs_idx
ActionEdge(decisions, linked_decision, action_weight, abs_idx, agent_node) ==
    IF decisions # <<>>
    THEN add_edge(DecisionNodeId(linked_decision), ActionNodeId(abs_idx), "executes",
                  (DecisionWeight(decisions[linked_decision + 1], linked_decision)
                   + action_weight) \div 2)
    ELSE add_edge(agent_node, ActionNodeId(abs_idx), "acts", action_weight)

\* The last 14 eligible actions.
ShownActions(cron_timeline) == LastN(EligibleActions(cron_timeline), GRAPH_ACTIONS_MAX)

ActionNodes(cron_timeline) ==
    [i \in 1..Len(ShownActions(cron_timeline)) |->
        add_node(ActionNodeId(ShownActions(cron_timeline)[i]), "action",
                 cron_timeline[ShownActions(cron_timeline)[i] + 1].ts,
                 ShownActions(cron_timeline)[i],
                 ActionWeight(cron_timeline, ShownActions(cron_timeline)[i]))]
ActionEdgesOf(decisions, decision_times, cron_timeline, shown, agent_node) ==
    [i \in 1..Len(shown) |->
        ActionEdge(decisions,
                   LinkedDecision(decision_times, parse_any_ts(cron_timeline[shown[i] + 1].ts),
                                  shown[i]),
                   ActionWeight(cron_timeline, shown[i]), shown[i], agent_node)]
ActionEdges(decisions, cron_timeline, agent_node) ==
    ActionEdgesOf(decisions, DecisionTimes(decisions), cron_timeline,
                  ShownActions(cron_timeline), agent_node)
OutcomeNodes(cron_timeline) ==
    [i \in 1..Len(ShownActions(cron_timeline)) |->
        add_node(OutcomeNodeId(ShownActions(cron_timeline)[i]),
                 IF OutcomeGood(cron_timeline[ShownActions(cron_timeline)[i] + 1])
                 THEN "outcome_ok" ELSE "outcome_bad",
                 cron_timeline[ShownActions(cron_timeline)[i] + 1].ts,
                 ShownActions(cron_timeline)[i],
                 OutcomeWeight(cron_timeline, ShownActions(cron_timeline)[i]))]
OutcomeEdges(cron_timeline) ==
    [i \in 1..Len(ShownActions(cron_timeline)) |->
        add_edge(ActionNodeId(ShownActions(cron_timeline)[i]),
                 OutcomeNodeId(ShownActions(cron_timeline)[i]), "produces",
                 (ActionWeight(cron_timeline, ShownActions(cron_timeline)[i])
                  + OutcomeWeight(cron_timeline, ShownActions(cron_timeline)[i])) \div 2)]

\* build_causal_graph: the nodes and the edges before liveness is marked
ColdNodes(snapshot, decisions, cron_timeline, context_roots, items) ==
    <<add_node(AgentNodeId(snapshot), "agent", NoneV, 0 - 1, 800000)>>
    \o RootNodes(context_roots)
    \o ActivationNodes(items)
    \o JoinAll([i \in 1..Min2(Len(decisions), GRAPH_DECISIONS_MAX) |->
                   DecisionNodes(decisions[i], i - 1)])
    \o ActionNodes(cron_timeline)
    \o OutcomeNodes(cron_timeline)
ColdEdges(snapshot, decisions, cron_timeline, context_roots, items) ==
    RootEdges(context_roots, AgentNodeId(snapshot))
    \o ActivationEdges(items, AgentNodeId(snapshot))
    \o JoinAll([i \in 1..Min2(Len(decisions), GRAPH_DECISIONS_MAX) |->
                   DecisionEdges(FirstN(decisions, GRAPH_DECISIONS_MAX), i - 1,
                                 ActivationNodes(items), context_roots,
                                 AgentNodeId(snapshot))])
    \o ActionEdges(FirstN(decisions, GRAPH_DECISIONS_MAX), cron_timeline,
                   AgentNodeId(snapshot))
    \o OutcomeEdges(cron_timeline)

\* build_causal_graph.set_node_live: when the node's window ends
LiveExpiry(start_ts, activity_duration) ==
    IF Min2(start_ts + MAX_LIVE_FROM_START_MS,
            start_ts + Max2(0, activity_duration) + LIVE_TAIL_MS) <= start_ts
    THEN start_ts + 250
    ELSE Min2(start_ts + MAX_LIVE_FROM_START_MS,
              start_ts + Max2(0, activity_duration) + LIVE_TAIL_MS)

\* build_causal_graph.set_node_live: the node, marked live when now lies
\* between its start and the end of its window
set_node_live(node, start_ts, activity_duration, now_ts) ==
    IF start_ts <= 0 THEN node
    ELSE IF now_ts < start_ts \/ now_ts > LiveExpiry(start_ts, activity_duration) THEN node
    ELSE [node EXCEPT !.live = TRUE,
                      !.live_started_at = start_ts,
                      !.live_expires_at = LiveExpiry(start_ts, activity_duration),
                      !.activity_duration = Max2(0, activity_duration)]

\* build_causal_graph.set_node_live_window
set_node_live_window(node, start_ts, end_ts, min_duration, now_ts) ==
    IF start_ts <= 0 \/ end_ts <= 0 THEN node
    ELSE set_node_live(node, start_ts,
                       Max2(0, Max2(end_ts, start_ts + min_duration) - start_ts), now_ts)

\* build_causal_graph: the end of the activity of decision idx
DecisionEnd(decision_times, idx, last_seen_ts, now_ts) ==
    IF idx > 0
    THEN (IF decision_times[idx] > decision_times[idx + 1] THEN decision_times[idx]
          ELSE decision_times[idx + 1] + 1200)
    ELSE IF last_seen_ts > 0 /\ last_seen_ts >= decision_times[idx + 1]
    THEN Min2(last_seen_ts, now_ts)
    ELSE Min2(now_ts, decision_times[idx + 1] + 1800)

\* The run of a cron timeline row has a known duration.
DurationKnown(row) == row.duration_ms.t = "int" /\ row.duration_ms.v > 0

\* build_causal_graph: the end of the activity of the action of a row
ActionEnd(row, start_ts, last_seen_ts, now_ts) ==
    IF DurationKnown(row) THEN start_ts + row.duration_ms.v
    ELSE IF StrLower(row.kind) \in {KindStarted, KindRun}
    THEN (IF last_seen_ts > 0 /\ last_seen_ts >= start_ts THEN Min2(last_seen_ts, now_ts)
          ELSE Min2(now_ts, start_ts + 3000))
    ELSE IF StrLower(row.kind) = KindFinished THEN start_ts + 1200
    ELSE start_ts + 1000

\* build_causal_graph: the end of the activity of the outcome of a row
OutcomeEnd(row, start_ts) ==
    IF DurationKnown(row) THEN start_ts + row.duration_ms.v ELSE start_ts + 1200

\* When the activity of a node starts and ends and how long it lasts at
\* least, as the liveness loops compute them; a start of 0 for a node the
\* loops pass over.
ActivityStart(node, decision_times, cron_timeline) ==
    CASE node.group = "activation" -> node.ts.v
      [] node.group \in {"decision", "reason", "signal"} -> decision_times[node.index + 1]
      [] node.group \in {"action", "outcome_ok", "outcome_bad"} ->
            IF StrLower(cron_timeline[node.index + 1].kind) = KindNextRun THEN 0
            ELSE parse_any_ts(cron_timeline[node.index + 1].ts)
      [] OTHER -> 0
ActivityEnd(node, start_ts, decision_times, cron_timeline, last_seen_ts, now_ts) ==
    CASE node.group = "activation" -> start_ts + 800
      [] node.group \in {"decision", "reason", "signal"} ->
            DecisionEnd(decision_times, node.index, last_seen_ts, now_ts)
      [] node.group = "action" ->
            ActionEnd(cron_timeline[node.index + 1], start_ts, last_seen_ts, now_ts)
      [] node.group \in {"outcome_ok", "outcome_bad"} ->
            OutcomeEnd(cron_timeline[node.index + 1], start_ts)
      [] OTHER -> 0
ActivityMin(node) ==
    CASE node.group = "activation" -> 600
      [] node.group \in {"decision", "reason", "signal"} -> 800
      [] node.group = "action" -> 1000
      [] OTHER -> 900

\* build_causal_graph: a node after the liveness loops
LiveNode(node, start_ts, decision_times, cron_timeline, last_seen_ts, now_ts) ==
    IF start_ts <= 0 THEN node
    ELSE set_node_live_window(node, start_ts,
             ActivityEnd(node, start_ts, decision_times, cron_timeline, last_seen_ts, now_ts),
             ActivityMin(node), now_ts)

LiveNodes(nodes, decision_times, cron_timeline, last_seen_ts, now_ts) ==
    [i \in 1..Len(nodes) |->
        LiveNode(nodes[i], ActivityStart(nodes[i], decision_times, cron_timeline),
                 decision_times, cron_timeline, last_seen_ts, now_ts)]

\* max(live nodes, key = start) taking the oldest start
OldestLive(nodes, group) ==
    LET live == {i \in 1..Len(nodes) : nodes[i].group = group /\ nodes[i].live}
    IN  IF live = {} THEN 0
        ELSE SetMin({i \in live :
                        \A j \in live : nodes[j].live_started_at >= nodes[i].live_started_at})

\* build_causal_graph: max(live nodes of a group, key = start), the place
\* of the first live node with the latest start, 0 when none is live
LatestLive(nodes, group) ==
    LET live == {i \in 1..Len(nodes) : nodes[i].group = group /\ nodes[i].live}
    IN  IF live = {} THEN 0
        ELSE SetMin({i \in live :
                        \A j \in live : nodes[j].live_started_at <= nodes[i].live_started_at})

\* build_causal_graph.trigger_id among actions, decisions and activations
TriggerPlace(nodes) ==
    IF LatestLive(nodes, "action") # 0 THEN LatestLive(nodes, "action")
    ELSE IF LatestLive(nodes, "decision") # 0 THEN LatestLive(nodes, "decision")
    ELSE LatestLive(nodes, "activation")

\* build_causal_graph: the agent node when nothing else is the trigger
AgentFallback(agent, last_seen_ts, now_ts) ==
    IF last_seen_ts > 0 /\ now_ts - last_seen_ts <= MAX_LIVE_FROM_START_MS
    THEN set_node_live(agent, last_seen_ts, 800, now_ts)
    ELSE agent

\* build_causal_graph: the nodes with the trigger marked
Triggered(nodes, place, last_seen_ts, now_ts) ==
    IF place # 0 THEN [nodes EXCEPT ![place].trigger_source = TRUE]
    ELSE IF AgentFallback(nodes[1], last_seen_ts, now_ts).live
    THEN [nodes EXCEPT ![1] = [AgentFallback(nodes[1], last_seen_ts, now_ts)
                                  EXCEPT !.trigger_source = TRUE]]
    ELSE nodes

\* build_causal_graph: the edges with their live marks
MarkedEdges(edges, nodes) ==
    LET live_ids == {nodes[i].id : i \in {j \in 1..Len(nodes) : nodes[j].live}}
        triggers == {nodes[i].id : i \in {j \in 1..Len(nodes) : nodes[j].trigger_source}}
    IN  [e \in 1..Len(edges) |->
            [edges[e] EXCEPT !.live =
                \/ (edges[e].source \in live_ids /\ edges[e].target \in live_ids)
                \/ (edges[e].source \in triggers /\ edges[e].target \in live_ids)]]

GraphOf(nodes, edges, shown, cap, outcomes, now_ts) ==
    [nodes |-> nodes, edges |-> MarkedEdges(edges, nodes),
     meta |-> [generated_at_ts |-> now_ts, max_activations |-> cap,
               activations_shown |-> shown, outcomes_shown |-> outcomes]]

LiveGraph(nodes, edges, shown, cap, outcomes, last_seen_ts, now_ts) ==
    GraphOf(Triggered(nodes, TriggerPlace(nodes), last_seen_ts, now_ts),
            edges, shown, cap, outcomes, now_ts)

GraphWith(snapshot, decisions, cron_timeline, context_roots, items, cap, now_ts) ==
    LiveGraph(LiveNodes(ColdNodes(snapshot, decisions, cron_timeline, context_roots, items),
                        DecisionTimes(decisions), cron_timeline,
                        parse_any_ts(Get(snapshot, "last_seen")), now_ts),
              ColdEdges(snapshot, decisions, cron_timeline, context_roots, items),
              Len(items), cap, Len(ShownActions(cron_timeline)),
              parse_any_ts(Get(snapshot, "last_seen")), now_ts)

\* src/app.py build_causal_graph, with the reading of time.time() as now_ts
\* (milliseconds)
build_causal_graph(snapshot, decisions, cron_timeline, context_roots, timeline, max_activations, now_ts) ==
    GraphWith(snapshot, decisions, cron_timeline, context_roots,
              ActivationItems(timeline, effective_max_activations(max_activations)),
              effective_max_activations(max_activations), now_ts)

\* --------------------------------------------------- graphs of drawn inputs
StatusError == <<"e","r","r","o","r">>
StatusRunning == <<"r","u","n","n","i","n","g">>
KindSkipped == <<"s","k","i","p","p","e","d">>

GraphSnapshot(last_seen) ==
    ("agent" :> VStr(NameMercurio)) @@ ("status" :> Txt("Active"))
    @@ ("last_seen" :> last_seen)

GraphDecision(ts, confidence, why, evidence, root_causes) ==
    [ts |-> ts, agent |-> NameMercurio, decision |-> TextRestart, why |-> why,
     evidence |-> evidence, confidence |-> confidence, source |-> "session",
     type |-> TypeMessage, root_causes |-> root_causes]

\* One row of a cron timeline as build_cron_timeline writes it.
TimelineCronRow(ts_ms, kind, status, duration_ms) ==
    [ts_ms |-> VInt(ts_ms), ts |-> fmt_ts_ms(VInt(ts_ms)), kind |-> kind, job |-> TextBeat,
     status |-> status, summary |-> TextDone, duration_ms |-> duration_ms,
     next_run_ms |-> NoneV]

RootSoulMatched == [RootSoul EXCEPT !.matched_anchors = <<AnchorGateway>>]

GraphDecisionLists ==
    {<<>>,
     <<GraphDecision(IsoZ(100), "high", <<REASON_USER, REASON_ROOTS>>, <<TextCheckGateway>>,
                     <<[file |-> "/w/SOUL.md", anchors |-> <<AnchorGateway>>]>>)>>,
     <<GraphDecision(IsoZ(103), "n/a", <<>>, <<>>, <<>>),
       GraphDecision(IsoZ(100), "medium", <<REASON_CONTEXT>>, <<>>, <<>>)>>,
     <<GraphDecision(EmptyStr, "high", <<REASON_CRON>>, <<TextRestart>>, <<>>)>>,
     [i \in 1..(GRAPH_DECISIONS_MAX + 1) |->
         GraphDecision(IsoZ(104 - i), "low", <<REASON_THOUGHT>>, <<TextPlan>>, <<>>)]}

GraphCronTimelines ==
    {<<>>,
     <<TimelineCronRow(100000, KindFinished, StatusOk, VInt(60000))>>,
     <<TimelineCronRow(100000, KindStarted, StatusRunning, NoneV),
       TimelineCronRow(102000, KindFinished, StatusError, NoneV),
       TimelineCronRow(103000, KindNextRun, StatusScheduled, NoneV)>>,
     [i \in 1..71 |->
         IF i <= 70 THEN TimelineCronRow(90000, KindSkipped, StatusOk, NoneV)
         ELSE TimelineCronRow(100000, KindFinished, StatusError, NoneV)],
     [i \in 1..(GRAPH_ACTIONS_MAX + 2) |->
         TimelineCronRow(80000 + i * 1000, KindRun, StatusSuccess, VInt(500))]}

GraphTimeline ==
    <<TimelineRow(IsoZ(104), "session", TypeMessage, TextRestart),
      RowUser, RowCronRun, RowAssistant,
      TimelineRow(IsoZ(60), "interaction", TypeUserInteraction, TextCheckGateway)>>

\* last_seen, timeline and activation cap
GraphActivations ==
    {<<EmptyStr, <<>>, NoneV>>, <<EmptyStr, GraphTimeline, NoneV>>,
     <<IsoZ(100), <<>>, VInt(0)>>, <<IsoZ(100), GraphTimeline, VInt(1)>>}

\* decisions and context roots
GraphDecisionRoots ==
    {<<d, <<>>>> : d \in GraphDecisionLists}
    \cup {<<d, <<RootOps, RootSoulMatched>>>> :
             d \in {x \in GraphDecisionLists : Len(x) = 1}}

GraphNows == {99000, 100000, 104000, 105500, 110000, 170000}

GraphArgs ==
    {[snapshot |-> GraphSnapshot(a[1]), decisions |-> d[1], cron_timeline |-> c,
      context_roots |-> d[2], timeline |-> a[2], max_activations |-> a[3], now_ts |-> n] :
        d \in GraphDecisionRoots, c \in GraphCronTimelines, a \in GraphActivations,
        n \in GraphNows}

InitGraph == InitCalls("build_causal_graph", GraphArgs, {InteractionsInit})

GraphOfCall(args) ==
    build_causal_graph(args.snapshot, args.decisions, args.cron_timeline,
                       args.context_roots, args.timeline, args.max_activations,
                       args.now_ts)

NextGraph == Returns("c1", "build_causal_graph", GraphOfCall(callers["c1"].args))

SpecGraph == InitGraph /\ [][NextGraph]_vars

\* C21: the weight of every node and of every edge of a built graph lies
\* between 0.1 and 1.9, whatever the snapshot, decisions, cron timeline,
\* context roots, timeline and activation cap.
C21_WeightsInRange ==
    HasValue("c1", "build_causal_graph") =>
        /\ \A i \in 1..Len(callers["c1"].data.nodes) :
              /\ callers["c1"].data.nodes[i].weight >= WEIGHT_MIN
              /\ callers["c1"].data.nodes[i].weight <= WEIGHT_MAX
        /\ \A e \in 1..Len(callers["c1"].data.edges) :
              /\ callers["c1"].data.edges[e].weight >= WEIGHT_MIN
              /\ callers["c1"].data.edges[e].weight <= WEIGHT_MAX

\* With no decision, an action whose row stands far behind the eligible
\* rows got the upper limit as its weight and an `acts` edge from the agent.
C21_Witness ==
    /\ HasValue("c1", "build_causal_graph")
    /\ callers["c1"].args.decisions = <<>>
    /\ \E i \in 1..Len(callers["c1"].data.nodes) :
          /\ callers["c1"].data.nodes[i].group = "action"
          /\ callers["c1"].data.nodes[i].weight = WEIGHT_MAX
    /\ \E e \in 1..Len(callers["c1"].data.edges) :
          /\ callers["c1"].data.edges[e].label = "acts"
          /\ callers["c1"].data.edges[e].weight = WEIGHT_MAX

\* How long the activity of a node lasts: to its end, at least the least
\* duration of its kind.
ActivityDuration(node, start_ts, args) ==
    Max2(0, Max2(ActivityEnd(node, start_ts, DecisionTimes(args.decisions), args.cron_timeline,
                             parse_any_ts(Get(args.snapshot, "last_seen")), args.now_ts),
                 start_ts + ActivityMin(node)) - start_ts)

\* now lies in [start, start + duration + tail]
InsideWindow(node, start_ts, args) ==
    /\ start_ts <= args.now_ts
    /\ args.now_ts <= start_ts + ActivityDuration(node, start_ts, args) + LIVE_TAIL_MS

\* C22: every activation, decision, action and outcome node with a positive
\* start time is marked live exactly when now lies in [start, start +
\* duration + tail], duration being the node's activity duration (the run's
\* duration for an action or outcome when it is known). Scheduled next runs
\* are left out.
C22_LiveInsideWindow ==
    HasValue("c1", "build_causal_graph") =>
        \A i \in 1..Len(callers["c1"].data.nodes) :
            LET node == callers["c1"].data.nodes[i]
                start_ts == ActivityStart(node, DecisionTimes(callers["c1"].args.decisions),
                                          callers["c1"].args.cron_timeline)
            IN  (/\ node.group \in {"activation", "decision", "action",
                                    "outcome_ok", "outcome_bad"}
                 /\ start_ts > 0)
                => (node.live <=> InsideWindow(node, start_ts, callers["c1"].args))

\* The live nodes of a group.
LiveOf(nodes, group) == {i \in 1..Len(nodes) : nodes[i].group = group /\ nodes[i].live}

\* Node i is the trigger and no live node of its group started later.
LatestIsTrigger(nodes, group) ==
    \E i \in LiveOf(nodes, group) :
        /\ nodes[i].trigger_source
        /\ \A j \in LiveOf(nodes, group) :
              nodes[j].live_started_at <= nodes[i].live_started_at

\* The snapshot's last_seen is at most 5 seconds old.
SeenLately(args) ==
    /\ parse_any_ts(Get(args.snapshot, "last_seen")) > 0
    /\ args.now_ts >= parse_any_ts(Get(args.snapshot, "last_seen"))
    /\ args.now_ts - parse_any_ts(Get(args.snapshot, "last_seen")) <= MAX_LIVE_FROM_START_MS

\* C23: at most one node of a built graph carries trigger_source and that
\* node is live: the live action with the latest start if an action is
\* live, else the live decision with the latest start, else the live
\* activation with the latest start, else the agent node if the snapshot's
\* last_seen is at most 5 seconds old, else no node.
C23_TriggerUniqueAndLive ==
    HasValue("c1", "build_causal_graph") =>
        LET nodes == callers["c1"].data.nodes
            triggers == {i \in 1..Len(nodes) : nodes[i].trigger_source}
        IN  /\ Cardinality(triggers) <= 1
            /\ \A i \in triggers : nodes[i].live
            /\ IF LiveOf(nodes, "action") # {} THEN LatestIsTrigger(nodes, "action")
               ELSE IF LiveOf(nodes, "decision") # {} THEN LatestIsTrigger(nodes, "decision")
               ELSE IF LiveOf(nodes, "activation") # {}
               THEN LatestIsTrigger(nodes, "activation")
               ELSE IF SeenLately(callers["c1"].args)
               THEN triggers = {1} /\ nodes[1].group = "agent"
               ELSE triggers = {}

\* Of two live actions the one that started later is the trigger, while a
\* decision is live too.
C23_Witness ==
    /\ HasValue("c1", "build_causal_graph")
    /\ LiveOf(callers["c1"].data.nodes, "decision") # {}
    /\ \E i, j \in LiveOf(callers["c1"].data.nodes, "action") :
          /\ callers["c1"].data.nodes[i].live_started_at
                < callers["c1"].data.nodes[j].live_started_at
          /\ callers["c1"].data.nodes[j].trigger_source
          /\ ~callers["c1"].data.nodes[i].trigger_source

\* ---------------------------------------------------------------- drilldown
\* src/app.py find_agent_snapshot: the first stored snapshot whose
\* normalized agent is the target, None when there is none
find_agent_snapshot(store, target_name) ==
    LET hits == {i \in 1..Len(store) :
                    normalize_agent_name(GetD(store[i].v, "agent", EmptyStr)) = target_name}
    IN  IF hits = {} THEN NoneV ELSE VMap(store[SetMin(hits)].v)

\* x[-n:] and `for item in x` raise TypeError for a truthy number.
SliceRaises(x) == x.t \in {"int", "bool"} /\ Truthy(x)

\* build_agent_timeline raises: one of the lists it slices or walks is a
\* truthy number.
TimelineRaises(snapshot) ==
    \E k \in {"message_history", "thought_history", "recent_messages", "recent_thoughts",
              "cron_details"} : SliceRaises(Get(snapshot, k))

\* build_cron_timeline: the row of a job's next run
NextRunRow(job) ==
    [ts_ms |-> Get(job, "next_run_ms"), ts |-> fmt_ts_ms(Get(job, "next_run_ms")),
     kind |-> KindNextRun, job |-> StrOf(GetD(job, "name", VStr(CharsCron))),
     status |-> StatusScheduled, summary |-> StrOf(GetD(job, "next_action", EmptyStr)),
     duration_ms |-> NoneV, next_run_ms |-> NoneV]

\* build_cron_timeline: the rows of the last 8 runs of a job that have a
\* numeric time
JobRunRows(job) ==
    LET runs == SelectSeq(LastN(PyOr(Get(job, "recent_runs"), VList(<<>>)).v, 8),
                          LAMBDA run : run.t = "map" /\ Get(run.v, "ts").t = "int")
    IN  [i \in 1..Len(runs) |->
            [ts_ms |-> Get(runs[i].v, "ts"), ts |-> fmt_ts_ms(Get(runs[i].v, "ts")),
             kind |-> StrOf(GetD(runs[i].v, "action", VStr(KindRun))),
             job |-> StrOf(GetD(job, "name", VStr(CharsCron))),
             status |-> StrOf(GetD(runs[i].v, "status", VStr(UNKNOWN_NAME))),
             summary |-> StrOf(GetD(runs[i].v, "summary", EmptyStr)),
             duration_ms |-> Get(runs[i].v, "durationMs"),
             next_run_ms |-> Get(runs[i].v, "nextRunAtMs")]]

RECURSIVE CronTimelineRows(_)
CronTimelineRows(agent_cron) ==
    IF agent_cron = <<>> THEN <<>>
    ELSE IF Head(agent_cron).t # "map" THEN CronTimelineRows(Tail(agent_cron))
    ELSE (IF Get(Head(agent_cron).v, "next_run_ms").t = "int"
          THEN <<NextRunRow(Head(agent_cron).v)>> ELSE <<>>)
         \o JobRunRows(Head(agent_cron).v)
         \o CronTimelineRows(Tail(agent_cron))

\* items.sort(key=ts_ms): ascending, rows of equal time in their order
OldestFirst(items) ==
    SortedDescending(items, [i \in 1..Len(items) |-> 0 - items[i].ts_ms.v])

\* src/app.py build_cron_timeline: the last 180 rows by time
build_cron_timeline(agent_cron) == LastN(OldestFirst(CronTimelineRows(agent_cron)), 180)

\* load_agent_context_roots: the reference text of a snapshot
ReferenceText(snapshot) ==
    JoinSpace(<<StrOf(GetD(snapshot, "task", EmptyStr)),
                JoinSpace(LastN(IterItems(PyOr(Get(snapshot, "recent_messages"),
                                               VList(<<>>))), 5)),
                JoinSpace(LastN(IterItems(PyOr(Get(snapshot, "recent_thoughts"),
                                               VList(<<>>))), 5))>>)

\* src/app.py load_agent_context_roots, for the markdown documents found in
\* the agent's workspace, each given by its path and the anchors extracted
\* from it (no document when no workspace resolves)
load_agent_context_roots(snapshot, documents) ==
    [i \in 1..Len(documents) |->
        [file |-> documents[i].file,
         anchors |-> FirstN(documents[i].anchors, 16),
         matched_anchors |-> best_anchor_matches(documents[i].anchors,
                                                 ReferenceText(snapshot), 6)]]

DepthOf(snapshot, timeline, decisions, agent_cron, cron_timeline, context_roots,
        max_activations, now_ts) ==
    [overview |-> [status |-> GetD(snapshot, "status", VStr(UNKNOWN_NAME)),
                   task |-> GetD(snapshot, "task", EmptyStr),
                   last_seen |-> GetD(snapshot, "last_seen", EmptyStr),
                   cron_jobs |-> GetD(snapshot, "cron_jobs", VInt(0)),
                   interrupted_tasks |-> GetD(snapshot, "interrupted_tasks", VList(<<>>))],
     timeline |-> FirstN(timeline, 180),
     decision_trace |-> decisions,
     cron |-> agent_cron,
     cron_timeline |-> cron_timeline,
     context_roots |-> context_roots,
     causal_graph |-> build_causal_graph(snapshot, decisions, cron_timeline, context_roots,
                                         timeline, max_activations, now_ts)]

DepthWith(snapshot, target, timeline, agent_cron, context_roots, max_activations, now_ts) ==
    DepthOf(snapshot, timeline, infer_decision_trace(target, timeline, context_roots),
            agent_cron, build_cron_timeline(agent_cron), context_roots, max_activations,
            now_ts)

\* src/app.py compute_drilldown_depth, reading the ring recent_user_agent,
\* the cron index, the workspace documents and the clock
compute_drilldown_depth(snapshot, target, max_activations, ring, index, documents, now_ts) ==
    DepthWith(snapshot, target, build_agent_timeline(snapshot, ring),
              GetD(index, StrOf(GetD(snapshot, "agent", EmptyStr)), <<>>),
              load_agent_context_roots(snapshot, documents), max_activations, now_ts)

\* The answers of the two routes.
NotFoundReply(agent, error, node_id) ==
    [status |-> 404, agent |-> agent, found |-> FALSE, error |-> error,
     node_id |-> node_id, body |-> NoneV, generated_at |-> NoneV]
FoundReply(agent, body) ==
    [status |-> 200, agent |-> agent, found |-> TRUE, error |-> "", node_id |-> <<>>,
     body |-> body, generated_at |-> NoneV]
\* An exception left the view: the server answers 500.
RaisedReply ==
    [status |-> 500, agent |-> EmptyStr, found |-> FALSE, error |-> "internal",
     node_id |-> <<>>, body |-> NoneV, generated_at |-> NoneV]

\* drilldown_node.file_detail: of the first context root with the file
FileDetail(context_roots, file_path) ==
    LET first == SetMin({i \in 1..Len(context_roots) : context_roots[i].file = file_path})
    IN  [file |-> file_path, matched_anchors |-> context_roots[first].matched_anchors]
\* drilldown_node: the detail of one node of a graph
NodeDetail(graph, place, node_id, context_roots) ==
    LET inbound == FirstN(SelectSeq(graph.edges, LAMBDA e : e.target = node_id), 30)
        outbound == FirstN(SelectSeq(graph.edges, LAMBDA e : e.source = node_id), 30)
        related_ids == {e.source : e \in {inbound[i] : i \in 1..Len(inbound)}
                                          \cup {outbound[i] : i \in 1..Len(outbound)}}
                       \cup {e.target : e \in {inbound[i] : i \in 1..Len(inbound)}
                                               \cup {outbound[i] : i \in 1..Len(outbound)}}
    IN  [node |-> graph.nodes[place],
         related_nodes |-> FirstN(SelectSeq(graph.nodes,
                                     LAMBDA n : n.id \in related_ids /\ n.id # node_id), 30),
         inbound_edges |-> inbound,
         outbound_edges |-> outbound,
         file_detail |-> IF graph.nodes[place].group = "root"
                            /\ context_roots[graph.nodes[place].index + 1].file # ""
                         THEN FileDetail(context_roots,
                                         context_roots[graph.nodes[place].index + 1].file)
                         ELSE NoneV]

\* drilldown_node, after the depth is computed
NodeReply(snapshot, target, depth, node_id) ==
    LET places == {i \in 1..Len(depth.causal_graph.nodes) :
                      depth.causal_graph.nodes[i].id = node_id}
    IN  IF places = {}
        THEN NotFoundReply(GetD(snapshot, "agent", VStr(target)), "node_not_found", node_id)
        ELSE FoundReply(GetD(snapshot, "agent", VStr(target)),
                        NodeDetail(depth.causal_graph, SetMin(places), node_id,
                                   depth.context_roots))

\* The locked block of drilldown and of drilldown_node for a stored
\* snapshot.
DrillFound(kind, snapshot, target, depth, node_id) ==
    IF kind = "drilldown" THEN FoundReply(GetD(snapshot, "agent", VStr(target)), depth)
    ELSE NodeReply(snapshot, target, depth, node_id)

\* src/app.py drilldown and drilldown_node: the answer for a request
DrillReply(kind, request, snapshot, ring, index, documents, now_ts) ==
    IF snapshot = NoneV
    THEN NotFoundReply(request.agent_name, "agent_not_found", <<>>)
    ELSE IF TimelineRaises(snapshot.v) THEN RaisedReply
    ELSE DrillFound(kind, snapshot.v, normalize_agent_name(request.agent_name),
                    compute_drilldown_depth(snapshot.v,
                        normalize_agent_name(request.agent_name),
                        request.max_activations, ring, index, documents, now_ts),
                    request.node_id)

\* drilldown, drilldown_node: `with state_lock:`
DrillAcquire(c) ==
    /\ callers[c].pc = "dd_lock"
    /\ state_lock = "free"
    /\ state_lock' = c
    /\ callers' = [callers EXCEPT ![c].pc = "dd_locked"]
    /\ UNCHANGED <<envVars, fileVars, storeVars, bootVars, tail, poll, bridgeVars, emitted>>

\* drilldown, drilldown_node: the locked block, left by a return or by an
\* exception; the workspace holds one of the document sets
DrillLocked(c, workspaces) ==
    /\ callers[c].pc = "dd_locked"
    /\ \E documents \in workspaces :
          callers' = [callers EXCEPT
              ![c].data = DrillReply(callers[c].kind, callers[c].args,
                              find_agent_snapshot(agent_state,
                                  normalize_agent_name(callers[c].args.agent_name)),
                              interactions.ua, cron_details_by_agent, documents,
                              NowMs(clock)),
              ![c].pc = "dd_return"]
    /\ state_lock' = "free"
    /\ UNCHANGED <<envVars, fileVars, storeVars, bootVars, tail, poll, bridgeVars, emitted>>

\* drilldown: the answer is stamped with generated_at and returned;
\* drilldown_node: the answer is returned
DrillReturn(c) ==
    /\ callers[c].pc = "dd_return"
    /\ callers' = [callers EXCEPT
                     ![c].pc = "done",
                     ![c].data.generated_at =
                         IF callers[c].kind = "drilldown" /\ callers[c].data.found
                         THEN utc_now_iso(clock) ELSE @]
    /\ UNCHANGED <<notCaller, bootVars, tail, poll, bridgeVars>>

Drill(c, workspaces) == DrillAcquire(c) \/ DrillLocked(c, workspaces) \/ DrillReturn(c)

\* --------------------------------------------------- drilldown of a store
NameGhost == <<"g","h","o","s","t">>
NameEuropa == <<"E","u","r","o","p","a">>
EvEuropaTalk ==
    ("agent" :> VStr(NameEuropa)) @@ ("status" :> Txt("Active"))
    @@ ("task" :> VStr(TextCheckGateway)) @@ ("ts" :> IsoZ(100))
    @@ ("recent_messages" :> VList(<<TextCheckGateway, TextGateway>>))
\* An event whose recent_messages is a number.
EvCounted ==
    ("agent" :> VStr(NameVenus)) @@ ("status" :> Txt("Active"))
    @@ ("ts" :> IsoZ(101)) @@ ("recent_messages" :> VInt(5))

DrillLogs ==
    {<<>>, <<EventLine(EvEuropaTalk)>>, <<EventLine(EvEuropaTalk), EventLine(EvCounted)>>}

DrillRequests ==
    {[agent_name |-> VStr(a), node_id |-> n, max_activations |-> NoneV] :
        a \in {NameGhost, NameEuropa, NameVenusLower},
        n \in {<<"none">>, <<"agent:">> \o NameEuropaLower, ActivationNodeId(0)}}

DocumentSoul == [file |-> "/w/SOUL.md", anchors |-> <<AnchorDecisionLog, AnchorGateway>>]
DrillWorkspaces == {<<>>, <<DocumentSoul>>}

InitDrill ==
    InitWith({"legacy"}, DrillLogs, NoSideLogs, NoTranscripts,
             {[c \in {"c1"} |-> CallOf("request", r)] : r \in DrillRequests},
             {InteractionsInit})

NextDrill ==
    \/ Starter("c1", {"drilldown", "drilldown_node"})
    \/ TailerBoot
    \/ Drill("c1", DrillWorkspaces)

SpecDrill == InitDrill /\ [][NextDrill]_vars

\* The locked block of a drilldown request of c runs in this step.
DrillAnswers(c) == callers[c].pc = "dd_locked" /\ callers'[c].pc = "dd_return"

\* C27: a drilldown or node-detail query for an identity with no stored
\* snapshot answers found false with error agent_not_found, a node-detail
\* query for a stored agent answers found false with error node_not_found
\* unless a node of the agent's graph has the id; neither ends in an
\* internal error and neither changes the state store.
C27_NotFoundNeverRaises ==
    [][\A c \in DOMAIN callers :
          DrillAnswers(c) =>
              /\ agent_state' = agent_state
              /\ interactions' = interactions
              /\ cron_details_by_agent' = cron_details_by_agent
              /\ find_agent_snapshot(agent_state,
                                     normalize_agent_name(callers[c].args.agent_name)) = NoneV
                 => /\ ~callers'[c].data.found
                    /\ callers'[c].data.error = "agent_not_found"
                    /\ callers'[c].data.status # 500
              /\ (/\ callers[c].kind = "drilldown_node"
                  /\ find_agent_snapshot(agent_state,
                         normalize_agent_name(callers[c].args.agent_name)) # NoneV)
                 => IF callers'[c].data.found
                    THEN callers'[c].data.body.node.id = callers[c].args.node_id
                    ELSE /\ callers'[c].data.error = "node_not_found"
                         /\ callers'[c].data.status # 500]_vars

\* --------------------------------------------------- the decision of an action
\* The edges of a graph that lead to a node with one of the labels.
EdgesInto(edges, node_id, labels) ==
    {e \in 1..Len(edges) : edges[e].target = node_id /\ edges[e].label \in labels}

\* The places of the decisions with a positive time not after action_ts.
PriorDecisions(decision_times, action_ts) ==
    {i \in 1..Len(decision_times) : decision_times[i] > 0 /\ decision_times[i] <= action_ts}

\* The nearest prior decisions: those with the latest time not after action_ts.
NearestDecisions(decision_times, action_ts) ==
    {i \in PriorDecisions(decision_times, action_ts) :
        \A j \in PriorDecisions(decision_times, action_ts) :
            decision_times[j] <= decision_times[i]}

\* The sources the edge into an action may have according to the rule of the
\* nearest decision.
NearestSources(args, node) ==
    IF PriorDecisions(DecisionTimes(args.decisions), parse_any_ts(node.ts)) # {}
    THEN {DecisionNodeId(i - 1) :
             i \in NearestDecisions(DecisionTimes(args.decisions), parse_any_ts(node.ts))}
    ELSE {DecisionNodeId(Min2(Len(DecisionTimes(args.decisions)) - 1, node.index))}

\* C35: every action node of a built graph has one edge from above: with no
\* decision it is an `acts` edge from the agent node; otherwise it is an
\* `executes` edge that comes from the decision (of the first 12) with the
\* latest positive time not after the action's time when there is one, and
\* from the index-aligned decision when there is none.
C35_ExecutesFromNearest ==
    HasValue("c1", "build_causal_graph") =>
        \A i \in 1..Len(callers["c1"].data.nodes) :
            LET node == callers["c1"].data.nodes[i]
                edges == callers["c1"].data.edges
                into == EdgesInto(edges, node.id, {"executes", "acts"})
            IN  node.group = "action" =>
                    /\ Cardinality(into) = 1
                    /\ \A e \in into :
                          IF callers["c1"].args.decisions = <<>>
                          THEN /\ edges[e].label = "acts"
                               /\ edges[e].source = AgentNodeId(callers["c1"].args.snapshot)
                          ELSE /\ edges[e].label = "executes"
                               /\ edges[e].source \in NearestSources(callers["c1"].args, node)

\* ------------------------------------------------ the trim of the seen-key set
\* The key of a record with the numeric native id i.
IdKey(i) == [kind |-> "id", id |-> VInt(i), timestamp |-> NoneV, role |-> NoneV,
             content |-> NoneV]

\* A transcript record with native id i: a tool result (never forwarded), or
\* a user message.
EntryNumbered(i, role) ==
    ("id" :> VInt(i)) @@ ("timestamp" :> IsoZ(i))
    @@ ("message" :> VMap(("role" :> VStr(role))
                          @@ ("content" :> VList(<<VMap(("type" :> VStr(CharsText))
                                                        @@ ("text" :> VStr(MsgHello)))>>))))

\* The records written during the run: the next two of the numbering.
TrimLinesIn ==
    {EventLine(EntryNumbered(SEEN_SOFT_LIMIT + 1, CharsUser)),
     EventLine(EntryNumbered(SEEN_SOFT_LIMIT + 2, CharsAssistant))}

\* A legacy-mode process whose bridge has read 5000 tool-result records
\* numbered in order (none of them forwarded, the event log is empty), the
\* last of them in the only transcript file left in Mercurio's directory;
\* the tailer follows the log.
InitTrim ==
    /\ OPENCLAW_MODE = "legacy"
    /\ clock = 0
    /\ bus = <<>>
    /\ bus_appends = 0
    /\ invalid_archive = <<>>
    /\ history_files = EmptyDict
    /\ agent_state = <<>>
    /\ BUS_READY = TRUE
    /\ interactions = InteractionsInit
    /\ cron_details_by_agent = EmptyDict
    /\ cron_summary = CronSummaryInit
    /\ state_lock = "free"
    /\ bootstrap_lock = "free"
    /\ started_flags = [bus_reader |-> TRUE, session_bridge |-> TRUE, core_monitor |-> FALSE]
    /\ threads = [tail_bus |-> 1, bridge |-> 1, core_monitor |-> 0]
    /\ emitted = <<>>
    /\ tail = [TailInit EXCEPT !.pc = "follow_read"]
    /\ poll = PollInit
    /\ callers = [c \in {"c1"} |-> CallerInit]
    /\ sessions = (NameLower :> <<<<EventLine(EntryNumbered(SEEN_SOFT_LIMIT, CharsToolResult))>>>>)
    /\ session_writes = 0
    /\ bridge = [pc |-> "list",
                 file_offsets |-> (NameMercurio :> [path |-> [dir |-> NameLower, n |-> 1],
                                                    offset |-> 1]),
                 seen_ids |-> {IdKey(i) : i \in 1..SEEN_SOFT_LIMIT},
                 todo |-> <<>>]

NextTrim ==
    \/ Bridge
    \/ TailerFollow
    \/ TranscriptAppend(TrimLinesIn)
    \/ TranscriptRotate(TrimLinesIn)
    \/ TranscriptTruncate(TrimLinesIn)

SpecTrim == InitTrim /\ [][NextTrim]_vars

\* The number of the key added last.
LastAdded(seen) ==
    SetMax({i \in SEEN_SOFT_LIMIT..(SEEN_SOFT_LIMIT + MaxTranscriptAppends) : IdKey(i) \in seen})

\* The 1000 keys added last.
NewestKeys(seen) == {k \in seen : AddedAt(k) > LastAdded(seen) - SEEN_KEEP}

\* C36: a bridge cycle ends with at most 5000 keys in the seen-key set, and
\* a cycle that trims the set keeps the 1000 keys added last, so that no
\* record read after the trim is forwarded a second time.
C36_TrimKeepsNewest ==
    [][(bridge.pc = "agents" /\ bridge'.pc = "sleep") =>
          /\ Cardinality(bridge'.seen_ids) <= SEEN_SOFT_LIMIT
          /\ Cardinality(bridge.seen_ids) > SEEN_SOFT_LIMIT =>
                /\ Cardinality(bridge'.seen_ids) = SEEN_KEEP
                /\ NewestKeys(bridge.seen_ids) \subseteq bridge'.seen_ids]_vars

\* No record was forwarded twice: the bridge's lines of the log differ.
ForwardedOnce ==
    \A i, j \in BridgeWritten(bus) : i # j => bus[i] # bus[j]

\* --------------------------------------------------------- an unknown mode
\* C39: with a configured mode that is none of legacy, core-only-passive and
\* auto, a caller that is back from start_bus_reader has started what auto
\* mode starts: the core monitor, the tailer and the session bridge.
C39_UnknownModeAsAuto ==
    (/\ OPENCLAW_MODE \notin {"legacy", "core-only-passive", "auto"}
     /\ \E c \in DOMAIN callers : Returned(c))
    => threads = [tail_bus |-> 1, bridge |-> 1, core_monitor |-> 1]

\* ------------------------------------------------ events without an emitter name
\* An accepted event whose agent and source are both empty texts.
EvBlankEmitter ==
    ("agent" :> EmptyStr) @@ ("source" :> EmptyStr) @@ ("status" :> Txt("Active"))
    @@ ("ts" :> Txt("2026-02-12T12:04:00Z"))

NamelessLines == {EventLine(EvBlankEmitter), EventLine(EvLower)}

InitNameless ==
    InitIn({"legacy"}, {<<>>, <<EventLine(EvBlankEmitter)>>,
                        <<EventLine(EvLower), EventLine(EvBlankEmitter)>>},
           NoSideLogs, NoTranscripts, {"c1"})

NextNameless ==
    \/ Starter("c1", {"request"})
    \/ Tailer
    \/ EmitterAppend(NamelessLines)

SpecNameless == InitNameless /\ [][NextNameless]_vars

\* C38: no snapshot is stored under the placeholder identity "unknown",
\* neither by Bootstrap nor by Follow: an accepted event whose agent and
\* source are both empty creates and updates no snapshot.
C38_NoUnknownSnapshot ==
    \A i \in 1..Len(agent_state) : agent_state[i].k # VStr(UNKNOWN_NAME)

\* ------------------------------------------------ the frame of the poller merge
\* An event replayed from an archive: its emitter marks it as not live.
EvReplayed ==
    ("agent" :> VStr(NameMercurio)) @@ ("status" :> Txt("Idle"))
    @@ ("task" :> Txt("Archive")) @@ ("ts" :> Txt("2026-02-12T11:00:00Z"))
    @@ ("recent_thoughts" :> VList(<<ThoughtPlan>>)) @@ ("current_thought" :> VStr(ThoughtPlan))
    @@ ("real_time" :> VBool(FALSE))

FrameLines == {EventLine(EvScenarioA), EventLine(EvSparse)}

InitFrame ==
    InitIn({"auto"}, {<<EventLine(EvReplayed)>>}, NoSideLogs, NoTranscripts, {"c1"})

NextFrame ==
    \/ Starter("c1", {"request"})
    \/ Tailer
    \/ PollerSteps({PayloadsMercurio})
    \/ EmitterAppend(FrameLines)

SpecFrame == InitFrame /\ [][NextFrame]_vars

\* The fields the poller merge is said to own.
PollerOwned ==
    {"cron_jobs", "active_missions", "last_seen", "raw_core", "cron_details",
     "interrupted_tasks"}

\* The fields said to be kept in all cases.
RuntimeOwned ==
    {"recent_thoughts", "current_thought", "raw", "message_history", "thought_history"}

\* Field f is the same in both snapshots: absent in both, or of equal value.
SameField(before, after, f) ==
    /\ (f \in DOMAIN before) = (f \in DOMAIN after)
    /\ f \in DOMAIN before => before[f] = after[f]

\* The merge kept the runtime side of a stored snapshot and wrote to the
\* listed fields only; fields in `also` are left out of the comparison.
FrameKept(before, after, also) ==
    /\ (Truthy(Get(before, "status")) /\ Get(before, "status") # Txt("unknown"))
          => SameField(before, after, "status")
    /\ Truthy(Get(before, "task")) => SameField(before, after, "task")
    /\ Truthy(Get(before, "recent_messages")) => SameField(before, after, "recent_messages")
    /\ \A f \in RuntimeOwned : SameField(before, after, f)
    /\ \A f \in ((DOMAIN before \cup DOMAIN after)
                    \ (PollerOwned \cup {"status", "task", "recent_messages"} \cup also)) :
          SameField(before, after, f)

\* Every stored snapshot is still stored and FrameKept holds of it.
MergeFrame(also) ==
    (OPENCLAW_MODE = "auto" /\ poll.pc = "merge" /\ poll'.pc = "post") =>
        \A i \in 1..Len(agent_state) :
            /\ ODHas(agent_state', agent_state[i].k)
            /\ FrameKept(agent_state[i].v, ODGet(agent_state', agent_state[i].k), also)

\* C37: in auto mode a poller merge leaves a stored snapshot's status as it
\* is when set and not "unknown", its task and recent_messages when
\* non-empty, its recent_thoughts, current_thought, raw payload and
\* histories in all cases, and writes to no field but cron_jobs,
\* active_missions, last_seen, raw_core, cron_details and interrupted_tasks.
C37_PollerFrame == [][MergeFrame({})]_vars

\* C37 (amended): the same, with real_time among the fields the merge
\* writes: it sets real_time to true in every snapshot it merges.
C37_PollerFrameWithRealTime == [][MergeFrame({"real_time"})]_vars

\* The poller has just merged into the snapshot stored from the replayed
\* event: the snapshot has the poller's raw_core and real_time true beside
\* the event's raw payload, status, task and thoughts.
C37_Witness ==
    /\ OPENCLAW_MODE = "auto"
    /\ poll.pc = "post"
    /\ poll.changed # <<>>
    /\ ODHas(agent_state, VStr(NameMercurio))
    /\ "raw_core" \in DOMAIN ODGet(agent_state, VStr(NameMercurio))
    /\ Get(ODGet(agent_state, VStr(NameMercurio)), "raw") = VMap(EvReplayed)
    /\ Get(ODGet(agent_state, VStr(NameMercurio)), "real_time") = VBool(TRUE)
    /\ Get(ODGet(agent_state, VStr(NameMercurio)), "status") = Txt("Idle")
    /\ Get(ODGet(agent_state, VStr(NameMercurio)), "task") = Txt("Archive")
    /\ Get(ODGet(agent_state, VStr(NameMercurio)), "recent_thoughts") = VList(<<ThoughtPlan>>)

\* ------------------------------------------------ the rebuild of the cron index
\* A job of the schedule: agent id, name, enabled flag and state.
JobOf(agent_id, name, enabled, state) ==
    VMap(("agentId" :> agent_id) @@ ("name" :> Txt(name)) @@ ("enabled" :> VBool(enabled))
         @@ ("state" :> VMap(state)))

\* Enabled, last run failed, no next run known.
JobUnscheduled == JobOf(VStr(NameVenusLower), "backup", TRUE, ("lastStatus" :> Txt("error")))
\* Disabled, with a next run and a failed last run.
JobPaused ==
    JobOf(VStr(NameLower), "digest", FALSE,
          ("nextRunAtMs" :> VInt(300000)) @@ ("lastStatus" :> Txt("timeout")))
\* Enabled, next run at 0.
JobZero == JobOf(VStr(NameLower), "zero", TRUE, ("nextRunAtMs" :> VInt(0)))
\* Without an agent id.
JobOrphan == JobOf(NoneV, "orphan", TRUE, ("nextRunAtMs" :> VInt(1000)))
\* Enabled, succeeded, next run at a time that falls with i.
JobTick(i) ==
    JobOf(VStr(NameLower), "beat", TRUE,
          ("nextRunAtMs" :> VInt(900000 - i * 1000)) @@ ("lastStatus" :> Txt("success")))
\* Enabled, failed, next run at a time that rises with i.
JobBroken(i) ==
    JobOf(VStr(NameVenusLower), "broken", TRUE,
          ("nextRunAtMs" :> VInt(100000 + i * 1000)) @@ ("lastStatus" :> Txt("error")))

RebuildPayloads ==
    {PayloadsJobs(<<>>),
     PayloadsJobs(<<JobReport, JobPaused, JobOrphan, VList(<<>>)>>),
     PayloadsJobs(<<JobReport, JobUnscheduled>>),
     PayloadsJobs(<<JobZero, JobReport, JobTick(1)>>),
     PayloadsJobs([i \in 1..(NEXT_UP_MAX + 2) |-> JobTick(i)]),
     PayloadsJobs([i \in 1..(NEXT_UP_MAX + 1) |-> JobBroken(i)])}

InitRebuild == InitIn({"core-only-passive"}, {<<>>}, NoSideLogs, NoTranscripts, {"c1"})

NextRebuild ==
    \/ \E c \in {"c1"} : CallerBegin(c, {"request"}) \/ EnsureAcquire(c)
                          \/ StartCoreCheck(c) \/ StartCoreSpawn(c) \/ EnsureRelease(c)
    \/ PollerSteps(RebuildPayloads)

SpecRebuild == InitRebuild /\ [][NextRebuild]_vars

\* The jobs of a response that are maps and have an agent id.
AgentJobs(payloads) ==
    SelectSeq(CronJobs(payloads), LAMBDA j : j.t = "map" /\ JobAgentId(j) # <<>>)

\* The last status of the job is ok (or success).
LastRunOk(job) == Get(JobState(job), "lastStatus") \in {Txt("ok"), Txt("success")}

\* The next-run time by which the list is ordered: none and 0 count as lacking.
LacksNextRun(next_run) == next_run.t # "int" \/ next_run.v = 0
NotAfter(a, b) == LacksNextRun(b) \/ (~LacksNextRun(a) /\ a.v <= b.v)

\* The list is ordered by next-run time ascending, those lacking one last.
OrderedNextUp(next_up) ==
    \A p, q \in 1..Len(next_up) :
        p < q => NotAfter(VInt(next_up[p].next_run_ms), VInt(next_up[q].next_run_ms))

\* The index and the summary are those of the jobs `jobs` of the current
\* response alone, next_up listing the enabled jobs that satisfy Listed.
RebuiltFrom(jobs, Listed(_)) ==
    /\ DOMAIN cron_details_by_agent'
          = {StrCapitalize(JobAgentId(jobs[i])) : i \in 1..Len(jobs)}
    /\ \A a \in DOMAIN cron_details_by_agent' :
          Len(cron_details_by_agent'[a])
            = Cardinality({i \in 1..Len(jobs) : StrCapitalize(JobAgentId(jobs[i])) = a})
    /\ cron_summary'.active_jobs = Cardinality({i \in 1..Len(jobs) : JobEnabled(jobs[i])})
    /\ Len(cron_summary'.next_up)
          = Min2(NEXT_UP_MAX,
                 Cardinality({i \in 1..Len(jobs) : JobEnabled(jobs[i]) /\ Listed(jobs[i])}))
    /\ \A p \in 1..Len(cron_summary'.next_up) :
          \E i \in 1..Len(jobs) :
              /\ JobEnabled(jobs[i])
              /\ cron_summary'.next_up[p].agent = StrCapitalize(JobAgentId(jobs[i]))
              /\ cron_summary'.next_up[p].name = Get(jobs[i].v, "name")
              /\ VInt(cron_summary'.next_up[p].next_run_ms) = Get(JobState(jobs[i]), "nextRunAtMs")
    /\ OrderedNextUp(cron_summary'.next_up)
    /\ Len(cron_summary'.last_errors)
          = Min2(NEXT_UP_MAX, Len(SelectSeq(jobs, LAMBDA j : ~LastRunOk(j))))
    /\ \A p \in 1..Len(cron_summary'.last_errors) :
          LET job == SelectSeq(jobs, LAMBDA j : ~LastRunOk(j))[p]
          IN  /\ cron_summary'.last_errors[p].agent = StrCapitalize(JobAgentId(job))
              /\ cron_summary'.last_errors[p].name = Get(job.v, "name")

\* The step that ends a rebuild.
RebuildEnds == poll.pc = "cron_summary" /\ poll'.pc = "synth"

\* C40: after every cron rebuild the index and the summary reflect the
\* current response alone: the index holds the agents and jobs of the
\* response, active_jobs is the number of enabled jobs with an agent id,
\* next_up holds the enabled jobs, at most 8, ordered by next-run time
\* ascending with those lacking a next-run time last, and last_errors holds
\* the jobs whose last status is not ok, at most 8.
C40_RebuildReflectsResponse ==
    [][RebuildEnds => RebuiltFrom(AgentJobs(poll.payloads), LAMBDA j : TRUE)]_vars

\* The same with next_up listing only the jobs whose next-run time is a number.
RebuildListsTimed ==
    [][RebuildEnds =>
          RebuiltFrom(AgentJobs(poll.payloads),
                      LAMBDA j : Get(JobState(j), "nextRunAtMs").t = "int")]_vars

\* ------------------------------------------- the payload of the targeted init
\* The step in which handle_connect first reads the ready flag as true: the
\* test of the loop, or the test after the loop when the wait ran out.
ObservesReady(c) ==
    /\ callers[c].kind = "connect"
    /\ BUS_READY
    /\ \/ callers[c].pc = "conn_check" /\ callers'[c].pc = "conn_final"
       \/ /\ callers[c].pc = "conn_final"
          /\ callers[c].waited >= CONNECT_WAIT_TICKS
          /\ callers'[c].pc = "conn_emit"

\* The agents of a list of snapshots.
AgentsIn(data) == {Get(data[i], "agent") : i \in 1..Len(data)}

\* C34: when handle_connect observes the ready flag true, the copy it will
\* send as the targeted init holds a snapshot of every agent that is in the
\* store at that moment; it is never a copy taken before Bootstrap populated
\* the store.
C34_InitHoldsStore ==
    [][\A c \in DOMAIN callers :
          ObservesReady(c) =>
              AgentsIn(ODValues(agent_state)) \subseteq AgentsIn(callers[c].data)]_vars

\* A targeted init that is the copy of the empty store while the store holds
\* the agent of the log.
StaleInitSent ==
    \E i \in 1..Len(emitted) :
        /\ emitted[i].event = "init"
        /\ emitted[i].room = "c1"
        /\ emitted[i].data = <<>>
        /\ agent_state # <<>>

\* ------------------------------------------------- Bootstrap against Follow
\* src/app.py tail_bus, the Follow loop over the lines of a log, from the
\* store `store`: blank, unparsable and skipped lines are passed over, every
\* other line goes through the locked block.
RECURSIVE FollowFold(_, _, _, _, _)
FollowFold(store, files, ix, lines, now) ==
    IF lines = <<>> THEN store
    ELSE IF Head(lines).j # "json" \/ should_skip_event(Head(lines).val)
    THEN FollowFold(store, files, ix, Tail(lines), now)
    ELSE LET r == FollowStep(store, files, ix, Head(lines).val.v,
                             normalize_event(Head(lines).val.v, now), now)
         IN  FollowFold(r.store, r.files, r.ix, Tail(lines), now)

ReplayLogs ==
    {<<EventLine(EvScenarioA)>>,
     <<EventLine(EvSparse)>>,
     <<EventLine(EvVenus), EventLine(EvScenarioA)>>,
     <<GarbageLine, EventLine(EvScenarioA), BlankLine, EventLine(EvSystem)>>,
     <<EventLine(EvSparse), EventLine(EvScenarioA)>>,
     <<EventLine(EvScenarioA), EventLine(EvSparse)>>,
     <<EventLine(EvScenarioA), EventLine(EvVenus), EventLine(EvLower)>>,
     <<EventLine(EvBlankEmitter)>>}

InitReplay == InitIn({"legacy", "auto"}, ReplayLogs, NoSideLogs, NoTranscripts, {"c1"})

NextReplay ==
    \/ Starter("c1", {"request"})
    \/ TailerBoot

SpecReplay == InitReplay /\ [][NextReplay]_vars

StoredAgents(store) == {store[i].k : i \in 1..Len(store)}

\* Two stores hold the same agents, with the same values of the merged fields.
SameSnapshots(a, b) ==
    /\ StoredAgents(a) = StoredAgents(b)
    /\ \A agent \in StoredAgents(a) :
          \A k \in FollowFields \cup {"agent"} :
              Get(ODGet(a, agent), k) = Get(ODGet(b, agent), k)

\* Bootstrap has populated the store and not yet pushed the initial state.
Populated == tail.pc = "boot_emit"

\* C33: the store Bootstrap built from the log equals the store that the
\* Follow merge gives when the lines of the log are applied one by one, in
\* order, to an empty store: same agents, same field values.
C33_BootstrapIsFold ==
    Populated =>
        SameSnapshots(agent_state,
                      FollowFold(<<>>, history_files, interactions, bus, clock))

\* The accepted lines of a log, as the agents they name.
AcceptedAgents(lines) ==
    SelectSeq([i \in 1..Len(lines) |->
                  IF lines[i].j # "json" \/ should_skip_event(lines[i].val)
                  THEN NoneV
                  ELSE normalize_event(lines[i].val.v, 0)["agent"]],
              LAMBDA a : a # NoneV)

\* No agent has two accepted lines and none is nameless.
OneLineEach(lines) ==
    /\ \A i, j \in 1..Len(AcceptedAgents(lines)) :
          i # j => AcceptedAgents(lines)[i] # AcceptedAgents(lines)[j]
    /\ \A i \in 1..Len(AcceptedAgents(lines)) : AcceptedAgents(lines)[i] # VStr(UNKNOWN_NAME)

\* On a log with one accepted line for each agent the two stores agree.
SingleLinesAgree ==
    (Populated /\ OneLineEach(bus)) =>
        SameSnapshots(agent_state,
                      FollowFold(<<>>, history_files, interactions, bus, clock))

\* After Bootstrap of a log whose first line gives Mercurio a cpu value and
\* whose last line omits it, the store has lost the value that the Follow
\* merge of the same two lines keeps.
FieldDropped ==
    /\ Populated
    /\ bus = <<EventLine(EvSparse), EventLine(EvScenarioA)>>
    /\ Get(ODGet(agent_state, VStr(NameMercurio)), "cpu") = EmptyStr
    /\ Get(ODGet(FollowFold(<<>>, history_files, interactions, bus, clock),
                 VStr(NameMercurio)), "cpu") = Txt("5%")

\* --------------------------------------------- malformed transcript lines
\* A record whose message block is a text, not a map.
EntryTextMessage == ("id" :> Txt("e9")) @@ ("message" :> Txt("oops"))

StuckEntries == {EntryNumbered(i, CharsUser) : i \in 1..3}

\* Mercurio's transcript starts with a line that is not a record (a JSON
\* list, a record with a text for message block, unparsable text) or holds
\* one record; Venus has a transcript of one record or none.
StuckTranscripts ==
    {(NameLower :> <<<<first, EventLine(EntryNumbered(1, CharsUser))>>>>)
       @@ (NameVenusLower :> <<<<EventLine(EntryNumbered(2, CharsUser))>>>>) :
         first \in {NonMapLine, EventLine(EntryTextMessage), GarbageLine}}
    \cup {(NameLower :> <<<<EventLine(EntryNumbered(1, CharsUser))>>>>)
            @@ (NameVenusLower :> <<>>)}

StuckLinesIn == {NonMapLine, EventLine(EntryNumbered(3, CharsUser))}

InitStuck == InitIn({"legacy"}, {<<>>}, NoSideLogs, StuckTranscripts, {"c1"})

NextStuck ==
    \/ Starter("c1", {"request"})
    \/ Bridge
    \/ TranscriptAppend(StuckLinesIn)

SpecStuck == InitStuck /\ [][NextStuck]_vars

\* The line parses as JSON and extract_session_event raises on its value.
Malformed(line) == line.j = "json" /\ ExtractRaises(line.val)

\* The lines the bridge reads in its pass over the agent at the head of its
\* list.
HeadLines ==
    BridgeLines(Head(bridge.todo).name, Head(bridge.todo).path,
                FileLines(Head(bridge.todo).path))

\* The pass of the bridge over one agent's file.
PassOver == bridge.pc = "agents" /\ bridge.todo # <<>> /\ bridge' # bridge

\* The event log holds the bridge's event for the record e.
Forwarded(e) ==
    \E i \in BridgeWritten(bus) : Get(bus[i].val.v, "ts") = Get(e, "timestamp")

\* The records that follow line number i among `lines`.
RecordsAfter(lines, i) ==
    {e \in StuckEntries : \E j \in 1..Len(lines) : i < j /\ lines[j] = EventLine(e)}

\* The pass ends with the records after line i in the event log and goes on:
\* a replay to the size of the file, an incremental read to the next agent
\* with the offset of this one at the end of its file.
SkippedPast(i) ==
    /\ \A e \in RecordsAfter(HeadLines, i) : Forwarded(e)'
    /\ \/ /\ bridge'.pc = "replay_size"
          /\ bridge'.todo = bridge.todo
       \/ /\ bridge'.pc = "agents"
          /\ bridge'.todo = Tail(bridge.todo)
          /\ Head(bridge.todo).name \in DOMAIN bridge'.file_offsets
          /\ bridge'.file_offsets[Head(bridge.todo).name]
                = [path |-> Head(bridge.todo).path,
                   offset |-> Len(FileLines(Head(bridge.todo).path))]

\* C31: a transcript line that is JSON but not a map, or whose message block
\* is not a map, is skipped without blocking the bridge: the pass that reads
\* it moves the agent's offset past it, has every valid record that follows
\* it in the event log, and goes on to the other agents of the cycle.
C31_MalformedSkipped ==
    [][PassOver =>
          \A i \in 1..Len(HeadLines) : Malformed(HeadLines[i]) => SkippedPast(i)]_vars

\* The same for a line that does not parse, in a pass without malformed line.
UnparsableSkipped ==
    [][(PassOver /\ \A j \in 1..Len(HeadLines) : ~Malformed(HeadLines[j])) =>
          \A i \in 1..Len(HeadLines) : HeadLines[i] = GarbageLine => SkippedPast(i)]_vars

\* The first record of Mercurio, behind a malformed line from the start, is
\* never in the event log.
BehindNeverForwarded ==
    Malformed(FileLines(LatestPath(NameLower))[1]) => ~Forwarded(EntryNumbered(1, CharsUser))

\* A later cycle finds the bridge where the malformed line left it: nothing
\* is tracked for Mercurio, Venus's record is not in the log, all transcript
\* writes are done.
StillBlocked ==
    /\ bridge.pc = "sleep"
    /\ session_writes = MaxTranscriptAppends
    /\ Malformed(FileLines(LatestPath(NameLower))[1])
    /\ NameMercurio \notin DOMAIN bridge.file_offsets
    /\ ~Forwarded(EntryNumbered(2, CharsUser))

\* ------------------------------------------------ the replay of a new file
\* The records of the run: two in the first transcript, then one for every
\* write, numbered by the write (the runtime gives every record an id of its
\* own); those that start a new file are numbered from RotatedFrom.
RotatedFrom == 3 + MaxTranscriptAppends
RotateEntries == {EntryNumbered(i, CharsUser) : i \in 1..(RotatedFrom + MaxTranscriptAppends)}

\* Mercurio has no transcript, or one of one or two records.
RotateTranscripts ==
    {(NameLower :> <<>>),
     (NameLower :> <<<<EventLine(EntryNumbered(1, CharsUser))>>>>),
     (NameLower :> <<<<EventLine(EntryNumbered(1, CharsUser)),
                       EventLine(EntryNumbered(2, CharsUser))>>>>)}

InitRotate == InitIn({"legacy"}, {<<>>}, NoSideLogs, RotateTranscripts, {"c1"})

NextRotate ==
    \/ Starter("c1", {"request"})
    \/ Bridge
    \/ TranscriptAppend({EventLine(EntryNumbered(3 + session_writes, CharsUser))})
    \/ TranscriptRotate({EventLine(EntryNumbered(RotatedFrom + session_writes, CharsUser))})

SpecRotate == InitRotate /\ [][NextRotate]_vars

\* The number of lines of the event log that the bridge wrote for record e.
TimesForwarded(e) ==
    Cardinality({i \in BridgeWritten(bus) : Get(bus[i].val.v, "ts") = Get(e, "timestamp")})

\* The records among the lines from..to of a file.
RecordsIn(lines, from, to) ==
    {e \in RotateEntries : \E j \in from..to : j >= 1 /\ j <= Len(lines) /\ lines[j] = EventLine(e)}

\* The step that ends a replay: the bridge resumes at the offset it stores.
ReplayEnds == bridge.pc = "replay_size" /\ bridge'.pc = "agents"

\* C32: when the bridge has replayed a new or rotated file and resumes at
\* the offset it stores for it, every record among the last 4 lines below
\* that offset -- the replayed ones and those appended during the replay --
\* is in the event log exactly once, so that the read from that offset on
\* neither misses nor repeats a record.
C32_ReplayLeavesNothingBehind ==
    [][ReplayEnds =>
          \A e \in RecordsIn(FileLines(Head(bridge.todo).path),
                             bridge'.file_offsets[Head(bridge.todo).name].offset
                                - BRIDGE_TAIL_ENTRIES + 1,
                             bridge'.file_offsets[Head(bridge.todo).name].offset) :
              TimesForwarded(e) = 1]_vars

\* An incremental read leaves nothing behind: every record between the old
\* offset and the new one is in the event log once.
IncrementalLeavesNothingBehind ==
    [][(PassOver /\ ~BridgeReplay(Head(bridge.todo).name, Head(bridge.todo).path)
          /\ bridge'.pc = "agents") =>
          \A e \in RecordsIn(FileLines(Head(bridge.todo).path),
                             PreviousOffset(Head(bridge.todo).name).offset + 1,
                             Len(FileLines(Head(bridge.todo).path))) :
              TimesForwarded(e)' = 1]_vars

\* A record below the offset the bridge holds for the latest file of
\* Mercurio is not in the event log, all transcript writes are done and the
\* bridge sleeps after a cycle.
RecordLeftBehind ==
    /\ bridge.pc = "sleep"
    /\ session_writes = MaxTranscriptAppends
    /\ NameMercurio \in DOMAIN bridge.file_offsets
    /\ bridge.file_offsets[NameMercurio].path = LatestPath(NameLower)
    /\ \E e \in RecordsIn(FileLines(LatestPath(NameLower)), 1,
                          bridge.file_offsets[NameMercurio].offset) :
          TimesForwarded(e) = 0

\* A record that is below the stored offset of the latest file and not in
\* the event log is not in the event log after any step either.
LeftBehindForGood ==
    [][\A e \in RotateEntries :
          (/\ NameMercurio \in DOMAIN bridge.file_offsets
           /\ bridge.file_offsets[NameMercurio].path = LatestPath(NameLower)
           /\ e \in RecordsIn(FileLines(LatestPath(NameLower)), 1,
                              bridge.file_offsets[NameMercurio].offset)
           /\ TimesForwarded(e) = 0)
          => TimesForwarded(e)' = 0]_vars

====
